---- MODULE Spec2Model ----
(***************************************************************************)
(* State-machine model of the CINE player (playClip / stopClip and the     *)
(* timer ticks they schedule) and of the RectangleScissorsTool mouse       *)
(* callbacks.                                                              *)
(*                                                                         *)
(* An optional JavaScript value is a sequence of length 0 (undefined) or 1 *)
(* (the value).                                                            *)
(***************************************************************************)
EXTENDS Integers, Sequences, FiniteSets, TLC

VARIABLES
    viewportType,             \* element -> class of the element's viewport
    volumeIds,                \* element -> viewport.getAllVolumeIds()
    numScrollSteps,           \* steps of every play context (images, slices, dimension groups)
    toolState,                \* viewportId -> CINE tool state (playClipData)
    timers,                   \* pending window.setInterval / window.setTimeout timers
    dynamicVolumesPlayingMap, \* volumeId -> element playing the dynamic volume
    stepIndex,                \* element -> current image / slice index of its viewport
    dimensionGroupNumber,     \* volumeId -> 1-based dimension group of a dynamic volume
    video,                    \* element -> playback state of a video viewport
    notRenderedLeft,          \* ticks that may still find the viewport not RENDERED
    lastOp,                   \* the last call or tick, with what it returned
    isDrawing,                \* RectangleScissorsTool.isDrawing
    editData,                 \* RectangleScissorsTool.editData (unset: undefined or null)
    listeners,                \* element -> events the tool's draw callbacks listen to
    cursorHidden,             \* element -> whether the element's cursor is hidden
    activeSegmentations,      \* viewportId -> active segmentation of the viewport
    applied,                  \* operationData of the last applyActiveStrategy call
    scissorsOp,               \* the last callback of the tool, with what it returned
    zoomEnv,                  \* ZoomTool configuration and the viewport it zooms
    zoomCamera,               \* viewport.getCamera() of the zoomed viewport
    initialMousePosWorld,     \* ZoomTool.initialMousePosWorld
    dirVec,                   \* ZoomTool.dirVec
    zoomStepsLeft,            \* events the ZoomTool may still handle
    zoomOp,                   \* the last callback of the ZoomTool, with what it did
    scalarData,               \* the voxels of the segmentation volume (labelmap)
    eraseCallsLeft,           \* erase operations that may still be called
    eraseOp,                  \* the last erase operation, with what it did
    conversions,              \* the calls of the contour to labelmap conversions
    workerTasks,              \* the worker task of each conversion
    progressEvents,           \* the WEB_WORKER_PROGRESS events triggered so far
    labelmapCache,            \* the derived labelmap volumes and images in the cache
    cpuEnabledElement,        \* the CPU fallback enabled element: image, viewport, renderingTools
    images,                   \* the mutable part of each image: pixel data, cachedLut
    canvases,                 \* the off-screen canvases
    renderStepsLeft,          \* steps the enabled element may still take
    renderOp                  \* the last render call, with what it did

cineVars == <<viewportType, volumeIds, numScrollSteps, toolState, timers,
              dynamicVolumesPlayingMap, stepIndex, dimensionGroupNumber, video,
              notRenderedLeft, lastOp>>

scissorsVars == <<isDrawing, editData, listeners, cursorHidden, activeSegmentations,
                  applied, scissorsOp>>

zoomVars == <<zoomEnv, zoomCamera, initialMousePosWorld, dirVec, zoomStepsLeft, zoomOp>>

eraseVars == <<scalarData, eraseCallsLeft, eraseOp>>

convertVars == <<conversions, workerTasks, progressEvents, labelmapCache>>

renderVars == <<cpuEnabledElement, images, canvases, renderStepsLeft, renderOp>>

outsideCine == <<scissorsVars, zoomVars, eraseVars, convertVars, renderVars>>
outsideScissors == <<cineVars, zoomVars, eraseVars, convertVars, renderVars>>
outsideZoom == <<cineVars, scissorsVars, eraseVars, convertVars, renderVars>>
outsideErase == <<cineVars, scissorsVars, zoomVars, convertVars, renderVars>>
outsideConvert == <<cineVars, scissorsVars, zoomVars, eraseVars, renderVars>>
outsideRender == <<cineVars, scissorsVars, zoomVars, eraseVars, convertVars>>

vars == <<cineVars, scissorsVars, zoomVars, eraseVars, convertVars, renderVars>>

-----------------------------------------------------------------------------
(* Optional values *)

Undefined == <<>>
Some(v) == <<v>>
OrElse(o, d) == IF o = Undefined THEN d ELSE o[1]

Range(f) == {f[i] : i \in DOMAIN f}
Abs(x) == IF x < 0 THEN -x ELSE x
Max(a, b) == IF a >= b THEN a ELSE b
Min(a, b) == IF a <= b THEN a ELSE b

(* JavaScript (a / b) | 0 : the quotient truncated toward zero *)
TruncDiv(a, b) ==
    IF (a >= 0) = (b > 0) THEN Abs(a) \div Abs(b) ELSE -(Abs(a) \div Abs(b))

-----------------------------------------------------------------------------
(* Bounds and the environment *)

MaxScrollSteps == 3
MaxNotRendered == 1
MaxRecursionDepth == 4
VideoFrameRate == 25

Elements == {"e1", "e2"}
ViewportId == [e \in Elements |-> IF e = "e1" THEN "vp1" ELSE "vp2"]
ViewportIds == {ViewportId[e] : e \in Elements}
NotEnabledElement == "e0"
UndefinedElement == "undefined"
ElementArgs == Elements \cup {NotEnabledElement, UndefinedElement}

ViewportTypes == {"StackViewport", "VolumeViewport", "VideoViewport", "VolumeViewport3D"}

(* The viewports of the two elements: the layouts the model is run on *)
Layout(type1, volumes1, type2, volumes2) ==
    [viewportType |-> [e \in Elements |-> IF e = "e1" THEN type1 ELSE type2],
     volumeIds |-> [e \in Elements |-> IF e = "e1" THEN volumes1 ELSE volumes2]]

Layouts ==
    {Layout("VolumeViewport", <<"dynamicVolume">>,
            "VolumeViewport", <<"staticVolume", "dynamicVolume">>),
     Layout("StackViewport", <<>>, "VolumeViewport3D", <<"staticVolume">>),
     Layout("VolumeViewport", <<"staticVolume">>, "VideoViewport", <<>>),
     Layout("VolumeViewport", <<>>, "VideoViewport", <<>>)}

VolumeIdSet == {"dynamicVolume", "staticVolume"}

isDynamicVolume(volumeId) == volumeId = "dynamicVolume"

-----------------------------------------------------------------------------
(* The viewports (classes of @cornerstonejs/core) *)

isStackViewport(element) == viewportType[element] = "StackViewport"
isVideoViewport(element) == viewportType[element] = "VideoViewport"
isVolumeViewport(element) == viewportType[element] = "VolumeViewport"
(* VolumeViewport and VolumeViewport3D both extend BaseVolumeViewport *)
isBaseVolumeViewport(element) ==
    viewportType[element] \in {"VolumeViewport", "VolumeViewport3D"}

(* getEnabledElement: undefined unless the element is an enabled element *)
getEnabledElement(element) ==
    IF element \in Elements
    THEN Some([viewportId |-> ViewportId[element], element |-> element])
    ELSE Undefined

(* cine/state: the tool state is kept per viewport id *)
NoData == <<>>
getToolState(s, element) == s.toolState[ViewportId[element]]
getToolStateByViewportId(s, viewportId) == s.toolState[viewportId]
addToolState(s, element, playClipData) ==
    [s EXCEPT !.toolState[ViewportId[element]] = Some(playClipData)]

(* The first dynamic volume of the viewport, else its first volume *)
_getVolumeFromViewport(element) ==
    IF ~isVolumeViewport(element) THEN Undefined
    ELSE LET ids == volumeIds[element]
             dyn == {i \in 1..Len(ids) : isDynamicVolume(ids[i])}
         IN IF Len(ids) = 0 THEN Undefined
            ELSE IF dyn # {}
                 THEN Some(ids[CHOOSE i \in dyn : \A j \in dyn : i <= j])
                 ELSE Some(ids[1])

-----------------------------------------------------------------------------
(* Timers of the window. clearTimeout and clearInterval share one id pool  *)
(* and clear a timer of either kind. An id is fresh when no pending timer  *)
(* has it and no tool state still holds it.                                *)

FreshTimerId(s) ==
    LET used == {t.id : t \in s.timers}
                \cup {s.toolState[v][1].intervalId[1] :
                        v \in {w \in ViewportIds :
                                 /\ s.toolState[w] # NoData
                                 /\ s.toolState[w][1].intervalId # Undefined}}
    IN CHOOSE i \in 1..(Cardinality(used) + 1) :
          /\ i \notin used
          /\ \A j \in 1..(Cardinality(used) + 1) : j \notin used => i <= j

clearTimer(s, id) == [s EXCEPT !.timers = {t \in @ : t.id # id}]

(* The state the operations of the CINE player read and write *)
CineState ==
    [toolState |-> toolState, timers |-> timers, map |-> dynamicVolumesPlayingMap,
     stepIndex |-> stepIndex, dimensionGroupNumber |-> dimensionGroupNumber,
     video |-> video, notRenderedLeft |-> notRenderedLeft,
     events |-> <<>>, stopClipCalls |-> 0, overflow |-> FALSE]

triggerEvent(s, element, type) ==
    [s EXCEPT !.events = Append(@, [type |-> type, element |-> element])]

-----------------------------------------------------------------------------
(* _stopClipWithData, _stopClip, _stopDynamicVolumeCine, stopClip *)

(* Variant: forgets the timer of the clip without clearing it *)
_stopClipWithData_KeepsTimer(s, viewportId) ==
    [s EXCEPT !.toolState[viewportId][1].intervalId = Undefined]

_stopClipWithData(s, viewportId) ==
    LET id == s.toolState[viewportId][1].intervalId
    IN IF id # Undefined
       THEN clearTimer([s EXCEPT !.toolState[viewportId][1].intervalId = Undefined],
                       id[1])
       ELSE s

NoStopClipOptions == [stopDynamicCine |-> Undefined, viewportId |-> Undefined]

RECURSIVE stopClip(_, _, _, _)
RECURSIVE _stopClip(_, _, _, _)
RECURSIVE _stopDynamicVolumeCine(_, _, _)

(* Variant: leaves the clip registered for the dynamic volume running *)
_stopDynamicVolumeCine_StopsNothing(s, element, depth) == s

(* Variant: stops the registered clip and keeps the entry of the volume *)
_stopDynamicVolumeCine_KeepsEntry(s, element, depth) ==
    IF isVolumeViewport(element)
    THEN LET volume == _getVolumeFromViewport(element)
         IN IF volume # Undefined /\ isDynamicVolume(volume[1])
            THEN LET dynamicCineElement == s.map[volume[1]]
                 IN IF /\ dynamicCineElement # Undefined
                       /\ dynamicCineElement[1] # element
                    THEN stopClip(s, dynamicCineElement[1], NoStopClipOptions, depth)
                    ELSE s
            ELSE s
    ELSE s

(* depth counts the stopClip calls on the stack; a call past               *)
(* MaxRecursionDepth is cut and recorded as an overflow                    *)
_stopDynamicVolumeCine(s, element, depth) ==
    IF isVolumeViewport(element)
    THEN LET volume == _getVolumeFromViewport(element)
         IN IF volume # Undefined /\ isDynamicVolume(volume[1])
            THEN LET dynamicCineElement == s.map[volume[1]]
                     s1 == [s EXCEPT !.map[volume[1]] = Undefined]
                 IN IF /\ dynamicCineElement # Undefined
                       /\ dynamicCineElement[1] # element
                    THEN stopClip(s1, dynamicCineElement[1], NoStopClipOptions, depth)
                    ELSE s1
            ELSE s
    ELSE s

_stopClip(s, element, options, depth) ==
    LET enabledElement == getEnabledElement(element)
    IN IF enabledElement = Undefined
       THEN IF options.viewportId # Undefined
            THEN IF getToolStateByViewportId(s, options.viewportId[1]) # NoData
                 THEN _stopClipWithData(s, options.viewportId[1])
                 ELSE s
            ELSE s
       ELSE LET s1 == IF getToolState(s, element) # NoData
                      THEN _stopClipWithData(s, ViewportId[element])
                      ELSE s
            IN IF isVideoViewport(element)
               THEN [s1 EXCEPT !.video[element].playing = FALSE]
               ELSE IF options.stopDynamicCine /\ isBaseVolumeViewport(element)
                    THEN _stopDynamicVolumeCine(s1, element, depth)
                    ELSE s1

stopClip(s, element, options, depth) ==
    IF depth >= MaxRecursionDepth
    THEN [s EXCEPT !.overflow = TRUE]
    ELSE _stopClip([s EXCEPT !.stopClipCalls = @ + 1], element,
                   [stopDynamicCine |-> OrElse(options.stopDynamicCine, TRUE),
                    viewportId |-> options.viewportId],
                   depth + 1)

-----------------------------------------------------------------------------
(* _getPlayClipTimeouts *)

RECURSIVE SumSeq(_)
SumSeq(q) == IF q = <<>> THEN 0 ELSE q[1] + SumSeq(Tail(q))

_getPlayClipTimeouts(vector, speed) ==
    LET limit == Len(vector)
        speed1 == IF speed <= 0 THEN 1 ELSE speed
        \* the first element of the vector is discarded
        delays == [i \in 1..(limit - 1) |-> TruncDiv(vector[i + 1], speed1)]
        isTimeVarying == \E i \in 2..(limit - 1) : delays[i] # delays[1]
        last == IF isTimeVarying
                THEN TruncDiv(SumSeq(delays), Len(delays))
                ELSE delays[1]
    IN [timeouts |-> IF Len(delays) > 0 THEN Append(delays, last) ELSE delays,
        isTimeVarying |-> isTimeVarying]

-----------------------------------------------------------------------------
(* The play contexts *)

DefaultWaitForRendered == 30
DefaultFramesPerSecond == 30

Context(kind, volumeId, frameTimeVectorEnabled, waitForRendered) ==
    [kind |-> kind, volumeId |-> volumeId,
     frameTimeVectorEnabled |-> frameTimeVectorEnabled,
     waitForRendered |-> waitForRendered, waitForRenderedCount |-> 0]

_createStackViewportCinePlayContext(waitForRendered) ==
    Context("stack", "", TRUE, waitForRendered)

_createVideoViewportCinePlayContext(waitForRendered) ==
    Context("video", "", TRUE, waitForRendered)

(* frameTimeVectorEnabled: the camera looks along the acquisition normal *)
_createVolumeViewportCinePlayContext(volumeId, acquiredOrientation) ==
    Context("volume", volumeId, acquiredOrientation, 0)

_createDynamicVolumeViewportCinePlayContext(volumeId) ==
    Context("dynamic", volumeId, FALSE, 0)

NoContext == Context("none", "", FALSE, 0)

(* Variant: a viewport of an unknown type gets the context of a stack *)
_createCinePlayContext_AnyType(element, playClipOptions, acquiredOrientation) ==
    [threw |-> FALSE, error |-> "",
     context |-> _createStackViewportCinePlayContext(
                     OrElse(playClipOptions.waitForRendered, DefaultWaitForRendered))]

(* [threw, error, context]; the volume context reads volume.volumeId and   *)
(* so throws a TypeError when the viewport has no volume                   *)
_createCinePlayContext(element, playClipOptions, acquiredOrientation) ==
    IF isStackViewport(element)
    THEN [threw |-> FALSE, error |-> "",
          context |-> _createStackViewportCinePlayContext(
                          OrElse(playClipOptions.waitForRendered, DefaultWaitForRendered))]
    ELSE IF isVolumeViewport(element)
    THEN LET volume == _getVolumeFromViewport(element)
         IN IF /\ playClipOptions.dynamicCineEnabled
               /\ volume # Undefined
               /\ isDynamicVolume(volume[1])
            THEN [threw |-> FALSE, error |-> "",
                  context |-> _createDynamicVolumeViewportCinePlayContext(volume[1])]
            ELSE IF volume = Undefined
                 THEN [threw |-> TRUE, error |-> "TypeError", context |-> NoContext]
                 ELSE [threw |-> FALSE, error |-> "",
                       context |-> _createVolumeViewportCinePlayContext(
                                       volume[1], acquiredOrientation)]
    ELSE IF isVideoViewport(element)
    THEN [threw |-> FALSE, error |-> "",
          context |-> _createVideoViewportCinePlayContext(
                          OrElse(playClipOptions.waitForRendered, DefaultWaitForRendered))]
    ELSE [threw |-> TRUE, error |-> "Unknown viewport type", context |-> NoContext]

hasPlay(context) == context.kind = "video"

contextNumScrollSteps(s, context) == numScrollSteps

contextCurrentStepIndex(s, element, context) ==
    IF context.kind = "dynamic"
    THEN s.dimensionGroupNumber[context.volumeId] - 1
    ELSE s.stepIndex[element]

-----------------------------------------------------------------------------
(* playClip *)

Delay(num, den) == [num |-> num, den |-> den]

NewPlayClipData(playClipOptions) ==
    [intervalId |-> Undefined,
     framesPerSecond |-> DefaultFramesPerSecond,
     ignoreFrameTimeVector |-> FALSE,
     usingFrameTimeVector |-> FALSE,
     frameTimeVector |-> playClipOptions.frameTimeVector,
     speed |-> OrElse(playClipOptions.frameTimeVectorSpeedMultiplier, 1),
     reverse |-> OrElse(playClipOptions.reverse, FALSE),
     loop |-> OrElse(playClipOptions.loop, TRUE),
     bounce |-> OrElse(playClipOptions.bounce, FALSE),
     dynamicCineEnabled |-> Undefined]

Returned(s) == [state |-> s, threw |-> FALSE, error |-> ""]
Thrown(s, error) == [state |-> s, threw |-> TRUE, error |-> error]

(* Variant: a call without framesPerSecond sets the rate back to the default *)
updatePlayClipData_DefaultRate(data, options) ==
    LET d1 == [data EXCEPT !.dynamicCineEnabled = Some(options.dynamicCineEnabled)]
        fps == options.framesPerSecond
        d2 == IF fps # Undefined /\ (fps[1] < 0 \/ fps[1] > 0)
              THEN [d1 EXCEPT !.framesPerSecond = fps[1],
                              !.reverse = fps[1] < 0,
                              !.ignoreFrameTimeVector = TRUE]
              ELSE [d1 EXCEPT !.framesPerSecond = DefaultFramesPerSecond]
    IN IF options.bounce # Undefined
       THEN [d2 EXCEPT !.bounce = options.bounce[1]]
       ELSE d2

(* Lines 100-131: the properties of playClipData updated from the options *)
updatePlayClipData(data, options) ==
    LET d1 == [data EXCEPT !.dynamicCineEnabled = Some(options.dynamicCineEnabled)]
        fps == options.framesPerSecond
        d2 == IF fps # Undefined /\ (fps[1] < 0 \/ fps[1] > 0)
              THEN [d1 EXCEPT !.framesPerSecond = fps[1],
                              !.reverse = fps[1] < 0,
                              !.ignoreFrameTimeVector = TRUE]
              ELSE d1
    IN IF options.bounce # Undefined
       THEN [d2 EXCEPT !.bounce = options.bounce[1]]
       ELSE d2

(* Variant: the frame time vector is used whether or not a rate was given *)
playClipTimeoutsOf_NeverIgnored(data, context) ==
    IF /\ data.frameTimeVector # Undefined
       /\ Len(data.frameTimeVector[1]) = numScrollSteps
       /\ context.frameTimeVectorEnabled
    THEN Some(_getPlayClipTimeouts(data.frameTimeVector[1], data.speed))
    ELSE Undefined

(* Lines 114-127: the timeouts of the frame time vector, when it is used *)
playClipTimeoutsOf(data, context) ==
    IF /\ data.ignoreFrameTimeVector # TRUE
       /\ data.frameTimeVector # Undefined
       /\ Len(data.frameTimeVector[1]) = numScrollSteps
       /\ context.frameTimeVectorEnabled
    THEN Some(_getPlayClipTimeouts(data.frameTimeVector[1], data.speed))
    ELSE Undefined

(* Lines 183-213: play the video, or start the timeout chain or the interval *)
startClip(s, element, options, context) ==
    LET vp == ViewportId[element]
        data == s.toolState[vp][1]
        tm == playClipTimeoutsOf(data, context)
        id == FreshTimerId(s)
        timer == [id |-> id, element |-> element, viewportId |-> vp,
                  isTimeout |-> FALSE, delay |-> Delay(0, 1), timeouts |-> <<>>,
                  context |-> context,
                  isDynamicCinePlaying |-> options.dynamicCineEnabled,
                  framesPerSecond |-> options.framesPerSecond]
    IN IF hasPlay(context)
       THEN [s EXCEPT !.toolState[vp][1].framesPerSecond = VideoFrameRate,
                      !.video[element] =
                          [playing |-> TRUE,
                           playbackRate |->
                               IF options.framesPerSecond # Undefined
                                  /\ options.framesPerSecond[1] # 0
                               THEN Delay(options.framesPerSecond[1], 24)
                               ELSE @.playbackRate]]
       ELSE IF tm # Undefined /\ Len(tm[1].timeouts) > 0 /\ tm[1].isTimeVarying
       THEN [s EXCEPT !.toolState[vp][1].usingFrameTimeVector = TRUE,
                      !.toolState[vp][1].intervalId = Some(id),
                      !.timers = @ \cup {[timer EXCEPT !.isTimeout = TRUE,
                                                       !.timeouts = tm[1].timeouts]}]
       ELSE [s EXCEPT !.toolState[vp][1].usingFrameTimeVector = FALSE,
                      !.toolState[vp][1].intervalId = Some(id),
                      !.timers = @ \cup {[timer EXCEPT
                                            !.delay = Delay(1000, Abs(data.framesPerSecond))]}]

(* Lines 173-181 *)
registerDynamicVolume(s, element, options) ==
    IF options.dynamicCineEnabled
    THEN LET volume == _getVolumeFromViewport(element)
         IN IF volume # Undefined
            THEN [s EXCEPT !.map[volume[1]] = Some(element)]
            ELSE s
    ELSE s

(* Variant: the running clip is not stopped before it is started again *)
prepareClipData_KeepsRunning(s, element, options) ==
    IF getToolState(s, element) = NoData
    THEN addToolState(s, element, NewPlayClipData(options))
    ELSE s

(* Lines 76-98: new tool state, or the running clip stopped *)
prepareClipData(s, element, options) ==
    IF getToolState(s, element) = NoData
    THEN addToolState(s, element, NewPlayClipData(options))
    ELSE _stopClip(s, element,
                   [stopDynamicCine |-> ~options.dynamicCineEnabled,
                    viewportId |-> Some(ViewportId[element])], 0)

playClip(s, element, playClipOptions, acquiredOrientation) ==
    IF element = UndefinedElement
    THEN Thrown(s, "playClip: element must not be undefined")
    ELSE IF getEnabledElement(element) = Undefined
    THEN Thrown(s, "playClip: element must be a valid Cornerstone enabled element")
    ELSE
      LET options == [playClipOptions EXCEPT
                         !.dynamicCineEnabled = OrElse(@, TRUE)]
          created == _createCinePlayContext(element, options, acquiredOrientation)
          isDynamicCinePlaying == options.dynamicCineEnabled
          vp == ViewportId[element]
      IN IF created.threw
         THEN Thrown(s, created.error)
         ELSE
           LET s1 == IF isDynamicCinePlaying
                     THEN _stopDynamicVolumeCine(s, element, 0)
                     ELSE s
               s2 == prepareClipData(s1, element, options)
               s3 == [s2 EXCEPT !.toolState[vp][1] = updatePlayClipData(@, options)]
               s4 == registerDynamicVolume(s3, element, options)
               s5 == startClip(s4, element, options, created.context)
           IN Returned(triggerEvent(s5, element, "CLIP_STARTED"))

-----------------------------------------------------------------------------
(* The timer callbacks *)

Clamp(lo, hi, x) == Max(lo, Min(hi, x))

setContext(s, timerId, context) ==
    [s EXCEPT !.timers = {IF t.id = timerId THEN [t EXCEPT !.context = context] ELSE t :
                            t \in @}]

(* playClipContext.scroll(delta) of the context of timer t: [state, threw]. *)
(* csUtils.scroll and volume.scroll apply the delta or throw.               *)
contextScroll(s, t, timerId, delta, rendered, scrollThrows) ==
    LET context == t.context
    IN IF context.kind \in {"stack", "video"}
       THEN IF context.waitForRenderedCount <= context.waitForRendered /\ ~rendered
            THEN [state |-> [setContext(s, timerId,
                                [context EXCEPT !.waitForRenderedCount = @ + 1])
                             EXCEPT !.notRenderedLeft = @ - 1],
                  threw |-> FALSE]
            ELSE LET s1 == setContext(s, timerId,
                                [context EXCEPT !.waitForRenderedCount = 0])
                 IN IF scrollThrows
                    THEN [state |-> s1, threw |-> TRUE]
                    ELSE [state |-> [s1 EXCEPT !.stepIndex[t.element] =
                                        Clamp(0, numScrollSteps - 1, @ + delta)],
                          threw |-> FALSE]
       ELSE IF context.kind = "volume"
       THEN IF scrollThrows
            THEN [state |-> s, threw |-> TRUE]
            ELSE [state |-> [s EXCEPT !.stepIndex[t.element] = @ + delta],
                  threw |-> FALSE]
       ELSE IF scrollThrows
            THEN [state |-> s, threw |-> TRUE]
            ELSE [state |-> [s EXCEPT !.dimensionGroupNumber[context.volumeId] = @ + delta],
                  threw |-> FALSE]

(* Variant: a bounce steps back without clamping the new index *)
nextStep_BounceUnclamped(data, numSteps, currentStepIndex) ==
    LET newStepIndex == currentStepIndex + (IF data.reverse THEN -1 ELSE 1)
        outOfRange == newStepIndex < 0 \/ newStepIndex >= numSteps
    IN IF outOfRange
       THEN IF data.bounce
            THEN [reverse |-> ~data.reverse,
                  newStepIndex |-> currentStepIndex + (IF ~data.reverse THEN -1 ELSE 1),
                  stop |-> FALSE, outOfRange |-> TRUE]
            ELSE IF ~data.loop
            THEN [reverse |-> data.reverse, newStepIndex |-> currentStepIndex,
                  stop |-> TRUE, outOfRange |-> TRUE]
            ELSE [reverse |-> data.reverse,
                  newStepIndex |-> IF data.reverse THEN numSteps - 1 ELSE 0,
                  stop |-> FALSE, outOfRange |-> TRUE]
       ELSE [reverse |-> data.reverse, newStepIndex |-> newStepIndex,
             stop |-> FALSE, outOfRange |-> FALSE]

(* Variant: every tick steps forward *)
nextStep_Forward(data, numSteps, currentStepIndex) ==
    LET newStepIndex == currentStepIndex + 1
        outOfRange == newStepIndex >= numSteps
    IN IF outOfRange
       THEN [reverse |-> data.reverse, newStepIndex |-> 0,
             stop |-> FALSE, outOfRange |-> TRUE]
       ELSE [reverse |-> data.reverse, newStepIndex |-> newStepIndex,
             stop |-> FALSE, outOfRange |-> FALSE]

(* The step a tick moves to: [reverse, newStepIndex, stop] *)
nextStep(data, numSteps, currentStepIndex) ==
    LET newStepIndex == currentStepIndex + (IF data.reverse THEN -1 ELSE 1)
        outOfRange == newStepIndex < 0 \/ newStepIndex >= numSteps
    IN IF outOfRange
       THEN IF data.bounce
            THEN [reverse |-> ~data.reverse,
                  newStepIndex |-> Clamp(0, numSteps - 1,
                                      currentStepIndex + (IF ~data.reverse THEN -1 ELSE 1)),
                  stop |-> FALSE, outOfRange |-> TRUE]
            ELSE IF ~data.loop
            THEN [reverse |-> data.reverse, newStepIndex |-> currentStepIndex,
                  stop |-> TRUE, outOfRange |-> TRUE]
            ELSE [reverse |-> data.reverse,
                  newStepIndex |-> IF data.reverse THEN numSteps - 1 ELSE 0,
                  stop |-> FALSE, outOfRange |-> TRUE]
       ELSE [reverse |-> data.reverse, newStepIndex |-> newStepIndex,
             stop |-> FALSE, outOfRange |-> FALSE]

(* playClipAction of the clip that timer t belongs to: [state, delta, outOfRange] *)
playClipAction(s, t, timerId, rendered, scrollThrows) ==
    LET vp == t.viewportId
        data == s.toolState[vp][1]
        currentStepIndex == contextCurrentStepIndex(s, t.element, t.context)
        step == nextStep(data, contextNumScrollSteps(s, t.context), currentStepIndex)
        s1 == [s EXCEPT !.toolState[vp][1].reverse = step.reverse]
        delta == step.newStepIndex - currentStepIndex
    IN IF step.stop
       THEN [state |-> triggerEvent(
                          _stopClip(s1, t.element,
                                    [stopDynamicCine |-> ~t.isDynamicCinePlaying,
                                     viewportId |-> Some(vp)], 0),
                          t.element, "CLIP_STOPPED"),
             delta |-> Undefined, outOfRange |-> TRUE]
       ELSE IF delta # 0
       THEN LET r == contextScroll(s1, t, timerId, delta, rendered, scrollThrows)
            IN [state |-> IF r.threw
                          THEN triggerEvent(_stopClipWithData(r.state, vp),
                                            t.element, "CLIP_STOPPED")
                          ELSE r.state,
                delta |-> Some(delta), outOfRange |-> step.outOfRange]
       ELSE [state |-> s1, delta |-> Undefined, outOfRange |-> step.outOfRange]

(* playClipTimeoutHandler: the next timeout is set before the frame is played *)
playClipTimeoutHandler(s, t, rendered, scrollThrows) ==
    LET s0 == clearTimer(s, t.id)
        id == FreshTimerId(s0)
        index == contextCurrentStepIndex(s0, t.element, t.context)
        next == [t EXCEPT !.id = id,
                          !.delay = IF index + 1 \in DOMAIN t.timeouts
                                    THEN Delay(t.timeouts[index + 1], 1)
                                    ELSE Delay(0, 1)]
        s1 == [s0 EXCEPT !.toolState[t.viewportId][1].intervalId = Some(id),
                         !.timers = @ \cup {next}]
    IN playClipAction(s1, next, id, rendered, scrollThrows)

timerCallback(s, t, rendered, scrollThrows) ==
    IF t.isTimeout
    THEN playClipTimeoutHandler(s, t, rendered, scrollThrows)
    ELSE playClipAction(s, t, t.id, rendered, scrollThrows)

-----------------------------------------------------------------------------
(* Inputs *)

(* A frame time vector of n frames whose delays differ by 1 ms *)
FrameTimeVector(n) == [i \in 1..n |-> 10 + i]

NoPlayClipOptions ==
    [framesPerSecond |-> Undefined, frameTimeVector |-> Undefined,
     frameTimeVectorSpeedMultiplier |-> Undefined, reverse |-> Undefined,
     loop |-> Undefined, bounce |-> Undefined, dynamicCineEnabled |-> Undefined,
     waitForRendered |-> Undefined]

With(field, values) ==
    {[NoPlayClipOptions EXCEPT ![field] = v] : v \in values}

RateOptions == With("framesPerSecond", {Some(-10), Some(20)})

(* A vector of the length of the clip, alone and at double speed, and one  *)
(* that is a frame too long                                                *)
FrameTimeOptions ==
    With("frameTimeVector", {Some(FrameTimeVector(numScrollSteps)),
                             Some(FrameTimeVector(numScrollSteps + 1))})
    \cup {[NoPlayClipOptions EXCEPT
              !.frameTimeVector = Some(FrameTimeVector(numScrollSteps)),
              !.frameTimeVectorSpeedMultiplier = Some(2)]}

ModeOptions ==
    With("bounce", {Some(TRUE), Some(FALSE)}) \cup With("loop", {Some(FALSE)})

DynamicCineOptions ==
    With("dynamicCineEnabled", {Some(FALSE)})
    \cup {[NoPlayClipOptions EXCEPT !.loop = Some(FALSE),
                                    !.dynamicCineEnabled = Some(FALSE)]}

(* The options playClip is called with on an element: rates, frame times   *)
(* and modes on a stack, the 4D clip on the viewport of the dynamic volume *)
(* alone, 4D and 3D clips on the viewport that shows it with a static one  *)
PlayClipOptions(element) ==
    {NoPlayClipOptions} \cup
    IF element \notin Elements THEN {}
    ELSE IF isStackViewport(element)
    THEN RateOptions \cup FrameTimeOptions \cup ModeOptions
         \cup With("waitForRendered", {Some(0)})
    ELSE IF isVideoViewport(element)
    THEN With("framesPerSecond", {Some(20)})
    ELSE IF isVolumeViewport(element) /\ volumeIds[element] = <<"dynamicVolume">>
    THEN With("loop", {Some(FALSE)})
    ELSE IF isVolumeViewport(element) /\ "dynamicVolume" \in Range(volumeIds[element])
    THEN DynamicCineOptions
    ELSE IF isVolumeViewport(element)
    THEN RateOptions \cup With("frameTimeVector", {Some(FrameTimeVector(numScrollSteps))})
         \cup With("dynamicCineEnabled", {Some(FALSE)})
    ELSE {}

(* The calls of stopClip: stopClip(element), stopClip(undefined, {viewportId}), *)
(* stopClip(element, {stopDynamicCine: false})                                  *)
StopClipCalls ==
    {[element |-> e, options |-> NoStopClipOptions] : e \in ElementArgs}
    \cup {[element |-> UndefinedElement,
           options |-> [NoStopClipOptions EXCEPT !.viewportId = Some(v)]] :
            v \in ViewportIds}
    \cup {[element |-> e,
           options |-> [NoStopClipOptions EXCEPT !.stopDynamicCine = Some(FALSE)]] :
            e \in {x \in Elements : isVolumeViewport(x)}}

(* Whether the camera of a volume viewport looks along the acquisition normal *)
AcquiredOrientations(element, options) ==
    IF element \in Elements /\ isVolumeViewport(element)
       /\ options.frameTimeVector # Undefined
    THEN BOOLEAN
    ELSE {TRUE}

-----------------------------------------------------------------------------
(* RectangleScissorsTool: preMouseDownCallback, _dragCallback, _endCallback *)

MaxCoord == 1
CanvasScale == 2
CanvasOffset == 1

WorldPoints == (0..MaxCoord) \X (0..MaxCoord)

(* viewport.worldToCanvas and viewport.canvasToWorld, on the view plane *)
worldToCanvas(p) == <<CanvasScale * p[1] + CanvasOffset, CanvasScale * p[2] + CanvasOffset>>
canvasToWorld(c) ==
    <<(c[1] - CanvasOffset) \div CanvasScale, (c[2] - CanvasOffset) \div CanvasScale>>

Segmentations == {"segmentation1"}
getActiveSegmentation(viewportId) == activeSegmentations[viewportId]
getActiveSegmentIndex(segmentationId) == 1
labelmapVolumeId(segmentationId) == "labelmapVolume"
getCurrentLabelmapImageIdForViewport(viewportId, segmentationId) == "labelmapImage"

EndEvents == {"MOUSE_UP", "MOUSE_CLICK", "TOUCH_END", "TOUCH_TAP"}
DragEvents == {"MOUSE_DRAG", "MOUSE_MOVE", "TOUCH_DRAG"}

(* The state the callbacks of the tool read and write *)
ScissorsState ==
    [isDrawing |-> isDrawing, editData |-> editData, listeners |-> listeners,
     cursorHidden |-> cursorHidden, applied |-> applied,
     returned |-> "undefined", threw |-> FALSE, error |-> "",
     defaultPrevented |-> FALSE, renderTriggered |-> FALSE]

_activateDraw(st, element) ==
    [st EXCEPT !.listeners[element] = @ \cup EndEvents \cup DragEvents]

_deactivateDraw(st, element) ==
    [st EXCEPT !.listeners[element] = @ \ (EndEvents \cup DragEvents)]

NoActiveSegmentation ==
    "No active segmentation detected, create one before using scissors tool"

(* Variant: a mouse-down starts a rectangle also while one is being drawn *)
preMouseDownCallback_AlwaysStarts(st, element, worldPos) ==
    LET activeLabelmapSegmentation == getActiveSegmentation(ViewportId[element])
    IN IF activeLabelmapSegmentation = Undefined
       THEN [st EXCEPT !.isDrawing = Some(TRUE), !.threw = TRUE,
                       !.error = NoActiveSegmentation]
       ELSE _activateDraw(
              [st EXCEPT !.isDrawing = Some(TRUE),
                         !.editData = Some(
                            [points |-> <<worldPos, worldPos, worldPos, worldPos>>,
                             segmentIndex |-> getActiveSegmentIndex(activeLabelmapSegmentation[1]),
                             segmentationId |-> activeLabelmapSegmentation[1],
                             handleIndex |-> 3, movingTextBox |-> FALSE,
                             newAnnotation |-> TRUE, hasMoved |-> FALSE,
                             volumeId |-> Undefined, imageId |-> Undefined]),
                         !.cursorHidden[element] = TRUE,
                         !.defaultPrevented = TRUE,
                         !.renderTriggered = TRUE,
                         !.returned = "true"], element)

preMouseDownCallback(st, element, worldPos) ==
    IF st.isDrawing = Some(TRUE)
    THEN st
    ELSE
      LET viewportId == ViewportId[element]
          st1 == [st EXCEPT !.isDrawing = Some(TRUE)]
          activeLabelmapSegmentation == getActiveSegmentation(viewportId)
      IN IF activeLabelmapSegmentation = Undefined
         THEN [st1 EXCEPT !.threw = TRUE, !.error = NoActiveSegmentation]
         ELSE
           LET segmentationId == activeLabelmapSegmentation[1]
               data == [points |-> <<worldPos, worldPos, worldPos, worldPos>>,
                        segmentIndex |-> getActiveSegmentIndex(segmentationId),
                        segmentationId |-> segmentationId,
                        handleIndex |-> 3,
                        movingTextBox |-> FALSE,
                        newAnnotation |-> TRUE,
                        hasMoved |-> FALSE,
                        volumeId |-> IF isBaseVolumeViewport(element)
                                     THEN Some(labelmapVolumeId(segmentationId))
                                     ELSE Undefined,
                        imageId |-> IF isBaseVolumeViewport(element)
                                    THEN Undefined
                                    ELSE Some(getCurrentLabelmapImageIdForViewport(
                                                  viewportId, segmentationId))]
               st2 == _activateDraw([st1 EXCEPT !.editData = Some(data)], element)
           IN [st2 EXCEPT !.cursorHidden[element] = TRUE,
                          !.defaultPrevented = TRUE,
                          !.renderTriggered = TRUE,
                          !.returned = "true"]

(* The corners of the rectangle after the handle handleIndex moved to worldPos *)
movedPoints(points, handleIndex, worldPos) ==
    LET moved == [points EXCEPT ![handleIndex + 1] = worldPos]
    IN IF handleIndex \in {0, 3}
       THEN LET bottomLeftCanvas == worldToCanvas(moved[1])
                topRightCanvas == worldToCanvas(moved[4])
            IN [moved EXCEPT
                  ![2] = canvasToWorld(<<topRightCanvas[1], bottomLeftCanvas[2]>>),
                  ![3] = canvasToWorld(<<bottomLeftCanvas[1], topRightCanvas[2]>>)]
       ELSE LET bottomRightCanvas == worldToCanvas(moved[2])
                topLeftCanvas == worldToCanvas(moved[3])
            IN [moved EXCEPT
                  ![1] = canvasToWorld(<<topLeftCanvas[1], bottomRightCanvas[2]>>),
                  ![4] = canvasToWorld(<<bottomRightCanvas[1], topLeftCanvas[2]>>)]

_dragCallback(st, element, worldPos) ==
    LET data == st.editData[1]
    IN [st EXCEPT !.isDrawing = Some(TRUE),
                  !.editData = Some([data EXCEPT
                                       !.points = movedPoints(data.points, data.handleIndex,
                                                              worldPos),
                                       !.hasMoved = TRUE]),
                  !.renderTriggered = TRUE]

_endCallback(st, element) ==
    LET data == st.editData[1]
    IN IF data.newAnnotation /\ ~data.hasMoved
       THEN st
       ELSE LET st1 == _deactivateDraw(st, element)
            IN [st1 EXCEPT !.cursorHidden[element] = FALSE,
                           !.editData = Undefined,
                           !.isDrawing = Some(FALSE),
                           !.applied = Some([element |-> element,
                                             segmentationId |-> data.segmentationId,
                                             points |-> data.points])]

-----------------------------------------------------------------------------
(* ZoomTool. Numbers are exact fractions [num, den] with den > 0. A point   *)
(* is <<x, n>>: x along the line of the canvas the mouse moves on, n along  *)
(* the view plane normal; the camera looks along -n.                        *)

RECURSIVE GCD(_, _)
GCD(a, b) == IF b = 0 THEN a ELSE GCD(b, a % b)

Rat(n, d) ==
    LET g == GCD(Abs(n), Abs(d))
        sign == IF d < 0 THEN -1 ELSE 1
    IN [num |-> (sign * n) \div g, den |-> (sign * d) \div g]
RInt(i) == [num |-> i, den |-> 1]
RAdd(a, b) == Rat(a.num * b.den + b.num * a.den, a.den * b.den)
RNeg(a) == [num |-> -a.num, den |-> a.den]
RSub(a, b) == RAdd(a, RNeg(b))
RMul(a, b) == Rat(a.num * b.num, a.den * b.den)
RDiv(a, b) == Rat(a.num * b.den, a.den * b.num)
RLess(a, b) == a.num * b.den < b.num * a.den
RAbs(a) == [num |-> Abs(a.num), den |-> a.den]
RSign(a) == IF a.num > 0 THEN 1 ELSE IF a.num < 0 THEN -1 ELSE 0

(* vec3.distance and vec3.normalize, for points that differ along one axis *)
distance(a, b) ==
    CASE a[2] = b[2] -> RAbs(RSub(a[1], b[1]))
      [] a[1] = b[1] -> RAbs(RSub(a[2], b[2]))
normalize(v) ==
    CASE v[2].num = 0 -> <<RInt(RSign(v[1])), RInt(0)>>
      [] v[1].num = 0 -> <<RInt(0), RInt(RSign(v[2]))>>
scaleAndAdd(a, b, scale) == <<RAdd(a[1], RMul(b[1], scale)), RAdd(a[2], RMul(b[2], scale))>>

(* The configuration of the constructor, and what toolProps may replace it by *)
DefaultZoomConfiguration ==
    [zoomToCenter |-> FALSE, minZoomScale |-> Rat(1, 1000), maxZoomScale |-> RInt(3000),
     pinchToZoom |-> TRUE, pan |-> TRUE, invert |-> FALSE]

ZoomConfigurations ==
    {DefaultZoomConfiguration,
     [DefaultZoomConfiguration EXCEPT !.zoomToCenter = TRUE, !.invert = TRUE,
                                      !.pan = FALSE],
     [DefaultZoomConfiguration EXCEPT !.minZoomScale = Rat(1, 2),
                                      !.maxZoomScale = RInt(2)],
     [DefaultZoomConfiguration EXCEPT !.pinchToZoom = FALSE]}

DefaultImageAreaScale == Rat(11, 10)
PerspectiveDistance == 10

(* The state the callbacks of the ZoomTool read and write *)
ZoomState ==
    [camera |-> zoomCamera, initialMousePosWorld |-> initialMousePosWorld,
     dirVec |-> dirVec, returned |-> "undefined", setCameraCalls |-> 0,
     renderCalls |-> 0, parallelZooms |-> 0]

setCamera(z, parallelScale, focalPoint, position) ==
    [z EXCEPT !.camera.parallelScale = parallelScale,
              !.camera.focalPoint = focalPoint,
              !.camera.position = position,
              !.setCameraCalls = @ + 1]

render(z) == [z EXCEPT !.renderCalls = @ + 1]

(* Lines 54-83; lines 96-106 of _pinchCallback are the same statements *)
setZoomDirection(z, worldPos) ==
    [z EXCEPT !.initialMousePosWorld = worldPos,
              !.dirVec = normalize(<<RSub(z.camera.focalPoint[1], worldPos[1]),
                                     RSub(z.camera.focalPoint[2], worldPos[2])>>)]

ZoomTool_preMouseDownCallback_Claims(z, worldPos) ==
    [setZoomDirection(z, worldPos) EXCEPT !.returned = "true"]

ZoomTool_preMouseDownCallback(z, worldPos) ==
    [setZoomDirection(z, worldPos) EXCEPT !.returned = "false"]

(* The minimum parallel scale required to fully fit the image, lines 201-224 *)
minParallelScaleRequired(env) ==
    LET imageWidth == RMul(RInt(env.dimensions[1]), env.spacing[1])
        imageHeight == RMul(RInt(env.dimensions[2]), env.spacing[2])
        canvasAspect == Rat(env.size[1], env.size[2])
        imageAreaScaleX == IF env.displayArea = Undefined THEN DefaultImageAreaScale
                           ELSE env.displayArea[1][1]
        imageAreaScaleY == IF env.displayArea = Undefined THEN DefaultImageAreaScale
                           ELSE env.displayArea[1][2]
        scaledImageWidth == RMul(imageWidth, imageAreaScaleX)
        scaledImageHeight == RMul(imageHeight, imageAreaScaleY)
        scaledImageAspect == RDiv(scaledImageWidth, scaledImageHeight)
    IN IF RLess(canvasAspect, scaledImageAspect)
       THEN RMul(RDiv(scaledImageWidth, canvasAspect), Rat(1, 2))
       ELSE RMul(scaledImageHeight, Rat(1, 2))

_dragParallelProjection_NoUpperLimit(z, env, deltaY) ==
    LET camera == z.camera
        k == RMul(RMul(RInt(deltaY), Rat(5, env.size[2])),
                  RInt(IF env.configuration.invert THEN -1 ELSE 1))
        parallelScaleToSet == RMul(RSub(RInt(1), k), camera.parallelScale)
        minScaleInWorld == RDiv(minParallelScaleRequired(env),
                                env.configuration.maxZoomScale)
        below == env.hasImageData /\ RLess(parallelScaleToSet, minScaleInWorld)
    IN setCamera([z EXCEPT !.parallelZooms = @ + 1],
                 IF below THEN minScaleInWorld ELSE parallelScaleToSet,
                 camera.focalPoint, camera.position)

_dragParallelProjection(z, env, deltaY) ==
    LET camera == z.camera
        zoomScale == Rat(5, env.size[2])
        k == RMul(RMul(RInt(deltaY), zoomScale),
                  RInt(IF env.configuration.invert THEN -1 ELSE 1))
        parallelScaleToSet == RMul(RSub(RInt(1), k), camera.parallelScale)
        distanceToCanvasCenter == distance(camera.focalPoint, z.initialMousePosWorld)
        move == RMul(RNeg(distanceToCanvasCenter), k)
        positionToSet == IF ~env.configuration.zoomToCenter
                         THEN scaleAndAdd(camera.position, z.dirVec, move)
                         ELSE camera.position
        focalPointToSet == IF ~env.configuration.zoomToCenter
                           THEN scaleAndAdd(camera.focalPoint, z.dirVec, move)
                           ELSE camera.focalPoint
        fit == minParallelScaleRequired(env)
        minScaleInWorld == RDiv(fit, env.configuration.maxZoomScale)
        maxScaleInWorld == RDiv(fit, env.configuration.minZoomScale)
        below == env.hasImageData /\ RLess(parallelScaleToSet, minScaleInWorld)
        above == env.hasImageData /\ ~below /\ RLess(maxScaleInWorld, parallelScaleToSet)
        thresholdExceeded == below \/ above
        cappedParallelScale == IF below THEN minScaleInWorld
                               ELSE IF above THEN maxScaleInWorld
                               ELSE parallelScaleToSet
    IN setCamera([z EXCEPT !.parallelZooms = @ + 1], cappedParallelScale,
                 IF thresholdExceeded THEN camera.focalPoint ELSE focalPointToSet,
                 IF thresholdExceeded THEN camera.position ELSE positionToSet)

_dragPerspectiveProjection(z, env, deltaY) ==
    LET camera == z.camera
        zoomScale == RDiv(distance(camera.position, camera.focalPoint), RInt(env.size[2]))
        k == IF env.configuration.invert
             THEN RDiv(RInt(deltaY), zoomScale)
             ELSE RMul(RInt(deltaY), zoomScale)
        directionOfProjection == <<RInt(0), RInt(-1)>>
    IN setCamera(z, camera.parallelScale,
                 scaleAndAdd(camera.focalPoint, directionOfProjection, k),
                 scaleAndAdd(camera.position, directionOfProjection, k))

zoomDrag(z, env, deltaY) ==
    IF z.camera.parallelProjection
    THEN _dragParallelProjection(z, env, deltaY)
    ELSE _dragPerspectiveProjection(z, env, deltaY)

ZoomTool_dragCallback(z, env, deltaY) == render(zoomDrag(z, env, deltaY))

_panCallback(z, deltaPointsWorld) ==
    render(setCamera(z, z.camera.parallelScale,
                     <<RSub(z.camera.focalPoint[1], RInt(deltaPointsWorld)),
                       z.camera.focalPoint[2]>>,
                     <<RSub(z.camera.position[1], RInt(deltaPointsWorld)),
                       z.camera.position[2]>>))

_pinchCallback(z, env, numPoints, worldPos, deltaDistance, deltaPointsWorld) ==
    LET z1 == IF numPoints > 1
              THEN render(zoomDrag(setZoomDirection(z, worldPos), env, deltaDistance))
              ELSE z
    IN IF env.configuration.pan THEN _panCallback(z1, deltaPointsWorld) ELSE z1

(* touchDragCallback is _pinchCallback when pinchToZoom is configured *)
touchDragCallback(z, env, numPoints, worldPos, deltaDistance, deltaY, deltaPointsWorld) ==
    IF env.configuration.pinchToZoom
    THEN _pinchCallback(z, env, numPoints, worldPos, deltaDistance, deltaPointsWorld)
    ELSE ZoomTool_dragCallback(z, env, deltaY)

preTouchStartCallback(z, env, worldPos) ==
    IF ~env.configuration.pinchToZoom
    THEN ZoomTool_preMouseDownCallback(z, worldPos)
    ELSE z

(* mouseWheelCallback: a drag of 5 pixels up or down *)
_zoom(z, env, worldPos, direction) ==
    LET z1 == IF env.viewportType = "stack"
              THEN [ZoomTool_preMouseDownCallback(z, worldPos) EXCEPT
                       !.returned = "undefined"]
              ELSE z
    IN ZoomTool_dragCallback(z1, env, -direction * 5)

-----------------------------------------------------------------------------
(* The state machine of the CINE player *)

Op(op, element, framesPerSecond, dynamicCineEnabled, stopOptions, r, delta, outOfRange) ==
    [op |-> op, element |-> element, framesPerSecond |-> framesPerSecond,
     wasPlaying |-> \E t \in timers : t.element = element,
     dynamicCineEnabled |-> dynamicCineEnabled, stopOptions |-> stopOptions,
     threw |-> r.threw, error |-> r.error, events |-> r.state.events,
     stopClipCalls |-> r.state.stopClipCalls, overflow |-> r.state.overflow,
     delta |-> delta, outOfRange |-> outOfRange]

NoOp ==
    [op |-> "none", element |-> UndefinedElement, framesPerSecond |-> Undefined,
     wasPlaying |-> FALSE, dynamicCineEnabled |-> Undefined,
     stopOptions |-> NoStopClipOptions, threw |-> FALSE, error |-> "",
     events |-> <<>>, stopClipCalls |-> 0, overflow |-> FALSE,
     delta |-> Undefined, outOfRange |-> FALSE]

Commit(s) ==
    /\ toolState' = s.toolState
    /\ timers' = s.timers
    /\ dynamicVolumesPlayingMap' = s.map
    /\ stepIndex' = s.stepIndex
    /\ dimensionGroupNumber' = s.dimensionGroupNumber
    /\ video' = s.video
    /\ notRenderedLeft' = s.notRenderedLeft
    /\ UNCHANGED <<viewportType, volumeIds, numScrollSteps>>
    /\ UNCHANGED outsideCine

CineInit ==
    /\ \E layout \in Layouts :
          /\ viewportType = layout.viewportType
          /\ volumeIds = layout.volumeIds
    /\ numScrollSteps \in 1..MaxScrollSteps
    /\ toolState = [v \in ViewportIds |-> NoData]
    /\ timers = {}
    /\ dynamicVolumesPlayingMap = [v \in VolumeIdSet |-> Undefined]
    /\ stepIndex = [e \in Elements |-> 0]
    /\ dimensionGroupNumber = [v \in VolumeIdSet |-> 1]
    /\ video = [e \in Elements |-> [playing |-> FALSE, playbackRate |-> Delay(1, 1)]]
    /\ notRenderedLeft = MaxNotRendered
    /\ lastOp = NoOp

PlayClip ==
    \E element \in ElementArgs :
      \E options \in PlayClipOptions(element) :
        \E acquired \in AcquiredOrientations(element, options) :
           LET r == playClip(CineState, element, options, acquired)
           IN /\ Commit(r.state)
              /\ lastOp' = Op("playClip", element, options.framesPerSecond,
                              options.dynamicCineEnabled, NoStopClipOptions, r,
                              Undefined, FALSE)

StopClip ==
    \E call \in StopClipCalls :
        LET r == Returned(stopClip(CineState, call.element, call.options, 0))
        IN /\ Commit(r.state)
           /\ lastOp' = Op("stopClip", call.element, Undefined, Undefined,
                           call.options, r, Undefined, FALSE)

Tick ==
    \E t \in timers, rendered \in BOOLEAN, scrollThrows \in BOOLEAN :
        /\ ~rendered => notRenderedLeft > 0 /\ t.context.kind = "stack"
        /\ LET r == timerCallback(CineState, t, rendered, scrollThrows)
           IN /\ Commit(r.state)
              /\ lastOp' = Op("tick", t.element, t.framesPerSecond,
                              Some(t.isDynamicCinePlaying), NoStopClipOptions,
                              Returned(r.state), r.delta, r.outOfRange)

-----------------------------------------------------------------------------
(* eraseRectangle. The segmentation volume has Dimensions voxels; voxel    *)
(* <<i, j, k>> is scalarData[VoxelIndex(i, j, k)] of the flat array (here  *)
(* 1-based).                                                               *)

Dimensions == <<2, 2, 2>>
VolumeOrigin == <<1, 1, 1>>
VolumeSpacing == <<2, 2, 2>>
NumVoxels == Dimensions[1] * Dimensions[2] * Dimensions[3]
VoxelIndex(i, j, k) == k * Dimensions[1] * Dimensions[2] + j * Dimensions[1] + i + 1

(* imageData.worldToIndex: the continuous index of a world point *)
worldToIndex(world) == [a \in 1..3 |-> Rat(world[a] - VolumeOrigin[a], VolumeSpacing[a])]

Floor(r) == r.num \div r.den

SetMin(S) == CHOOSE m \in S : \A n \in S : m <= n
SetMax(S) == CHOOSE m \in S : \A n \in S : m >= n

(* The index range of the shape on each axis, clipped to the volume *)
getBoundingBoxAroundShape(vertices, dimensions) ==
    [a \in 1..3 |->
        LET along == {Floor(vertices[n][a]) : n \in 1..Len(vertices)}
        IN <<Max(0, SetMin(along)), Min(dimensions[a] - 1, SetMax(along))>>]

eraseCallback_IgnoresLock(segmentsLocked, value) == 0

(* The callback of eraseRectangle: the value a visited voxel is left with *)
eraseCallback(segmentsLocked, value) ==
    IF value \in segmentsLocked THEN value ELSE 0

(* Calls the callback on every voxel of boundsIJK that is in the shape;  *)
(* pointInShape is the set of voxels its predicate holds for           *)
pointInShapeCallback(boundsIJK, data, dimensions, pointInShape, segmentsLocked) ==
    LET visited == {VoxelIndex(v[1], v[2], v[3]) : v \in
                       ((boundsIJK[1][1]..boundsIJK[1][2])
                           \X (boundsIJK[2][1]..boundsIJK[2][2])
                           \X (boundsIJK[3][1]..boundsIJK[3][2])) \cap pointInShape}
    IN [n \in 1..Len(data) |->
           IF n \in visited THEN eraseCallback(segmentsLocked, data[n]) ELSE data[n]]

ObliqueNotSupported == "Oblique segmentation tools are not supported yet"

eraseRectangle(data, points, segmentsLocked, inside) ==
    LET rectangleCornersIJK == [n \in 1..Len(points) |-> worldToIndex(points[n])]
        boundsIJK == getBoundingBoxAroundShape(rectangleCornersIJK, Dimensions)
        pointInShape == (0..(Dimensions[1] - 1)) \X (0..(Dimensions[2] - 1))
                            \X (0..(Dimensions[3] - 1))
    IN IF \A a \in 1..3 : boundsIJK[a][1] # boundsIJK[a][2]
       THEN [scalarData |-> data, threw |-> TRUE, error |-> ObliqueNotSupported,
             dataModifiedEvents |-> 0]
       ELSE [scalarData |-> pointInShapeCallback(boundsIJK, data, Dimensions,
                                                 pointInShape, segmentsLocked),
             threw |-> FALSE, error |-> "", dataModifiedEvents |-> 1]

eraseInsideRectangle(data, points, segmentsLocked) ==
    eraseRectangle(data, points, segmentsLocked, TRUE)

eraseOutsideRectangle(data, points, segmentsLocked) ==
    eraseRectangle(data, points, segmentsLocked, FALSE)

SegmentIndices == {1, 2}
NoErase ==
    [name |-> "none", points |-> <<>>, segmentsLocked |-> {}, threw |-> FALSE,
     error |-> "", dataModifiedEvents |-> 0]

(* The segmentation volume while no erase operation is called *)
EraseIdle ==
    /\ scalarData = [n \in 1..NumVoxels |-> 1]
    /\ eraseCallsLeft = 0
    /\ eraseOp = NoErase

-----------------------------------------------------------------------------
(* The contour to labelmap conversions. Each call of an async function is  *)
(* a conversion; it runs from one await to the next in one step.           *)

ConversionCalls == {"c1", "c2"}
MaxDerived == 4
MaxProgressCallbacks == 1
DerivedIds == 1..MaxDerived
CachedImageIds == {"image1", "image2"}
Blank == <<"blank">>

NoViewport == "No viewport provided, labelmap computation from contour requires viewports"
NoImageIds == "No imageIds found, labelmap computation from contour requires viewports with imageIds"
NotCached == "ImageIds must be cached before converting contour to labelmap"
TypeError == "TypeError"
WorkerError == "worker task rejected"

NotCalled ==
    [kind |-> "none", pc |-> "notCalled", error |-> "", options |-> Undefined,
     derived |-> <<>>, returned |-> <<>>]

ConvertState ==
    [conversions |-> conversions, workerTasks |-> workerTasks,
     progressEvents |-> progressEvents, labelmapCache |-> labelmapCache]

(* Whether new scalar data has been written to a labelmap of the conversion *)
Written(s, c) ==
    \E n \in 1..Len(s.conversions[c].derived) :
        s.labelmapCache[s.conversions[c].derived[n]][1].scalarData # Blank

(* triggerEvent calls the listeners at once: they see the state of the     *)
(* worker task and of the labelmaps as they are when the event is emitted  *)
triggerWorkerProgress(s, c, progress, from) ==
    [s EXCEPT !.progressEvents =
        Append(@, [call |-> c, progress |-> progress, from |-> from,
                   task |-> s.workerTasks[c].state, written |-> Written(s, c)])]

executeTask(s, c) ==
    [s EXCEPT !.workerTasks[c] =
        [state |-> "running", callbacksLeft |-> MaxProgressCallbacks]]

(* What the worker computes for the contours of the conversion *)
workerResult(c, referenced) == <<"labelmap", c, referenced>>

(* A universally unique identifier: one that is not in use *)
uuidv4(s) ==
    CHOOSE id \in DerivedIds :
        /\ s.labelmapCache[id] = Undefined
        /\ \A other \in 1..(id - 1) : s.labelmapCache[other] # Undefined

createAndCacheDerived(s, referenced, id) ==
    [s EXCEPT !.labelmapCache[id] =
        Some([referenced |-> referenced, scalarData |-> Blank, modified |-> 0])]

RECURSIVE createAndCacheDerivedLabelmapImages(_, _, _)
createAndCacheDerivedLabelmapImages(s, c, imageIds) ==
    IF imageIds = <<>> THEN s
    ELSE LET id == uuidv4(s)
             s1 == createAndCacheDerived(s, Head(imageIds), id)
         IN createAndCacheDerivedLabelmapImages(
                [s1 EXCEPT !.conversions[c].derived = Append(@, id)], c, Tail(imageIds))

rejectWith(s, c, error) ==
    [s EXCEPT !.conversions[c].pc = "rejected", !.conversions[c].error = error]

newSegmentationVolumeId_Fixed(s) == 1

newSegmentationVolumeId(s) == uuidv4(s)

(* Lines 30-84: up to the await of the worker task *)
convertContourToVolumeLabelmap(s0, c, options) ==
    LET s == [s0 EXCEPT !.conversions[c].kind = "volume",
                        !.conversions[c].options = options]
    IN IF options = Undefined THEN rejectWith(s, c, TypeError)
       ELSE IF options[1].imageIds = Undefined THEN rejectWith(s, c, NoImageIds)
       ELSE LET segmentationVolumeId == newSegmentationVolumeId(s)
                s1 == createAndCacheDerived(s, options[1].volumeId,
                                            segmentationVolumeId)
                s2 == [s1 EXCEPT !.conversions[c].derived = <<segmentationVolumeId>>]
                s3 == triggerWorkerProgress(s2, c, 0, "start")
                s4 == executeTask(s3, c)
            IN [s4 EXCEPT !.conversions[c].pc = "awaitTask"]

convertContourToVolumeLabelmap_resume_WritesFirst(s, c) ==
    LET id == s.conversions[c].derived[1]
        s1 == [s EXCEPT !.labelmapCache[id][1].scalarData = workerResult(c, "volume")]
        s2 == triggerWorkerProgress(s1, c, 100, "end")
    IN [s2 EXCEPT !.conversions[c].pc = "resolved"]

(* Lines 65, 86-94: from the worker task's result to the return *)
convertContourToVolumeLabelmap_resume(s, c) ==
    IF s.workerTasks[c].state = "rejected" THEN rejectWith(s, c, WorkerError)
    ELSE LET id == s.conversions[c].derived[1]
             newScalarData == workerResult(c, "volume")
             s1 == triggerWorkerProgress(s, c, 100, "end")
             s2 == [s1 EXCEPT !.labelmapCache[id][1].scalarData = newScalarData,
                              !.labelmapCache[id][1].modified = @ + 1]
         IN [s2 EXCEPT !.conversions[c].pc = "resolved",
                       !.conversions[c].returned = <<id>>]

allCached_NoCheck(imageIds) == TRUE

(* Lines 118-124: cache.getImageLoadObject finds every imageId *)
allCached(imageIds) == \A n \in 1..Len(imageIds) : imageIds[n] \in CachedImageIds

(* Lines 97-129: up to the await of the derived labelmap images *)
convertContourToStackLabelmap(s0, c, options) ==
    LET s == [s0 EXCEPT !.conversions[c].kind = "stack",
                        !.conversions[c].options = options]
    IN IF options = Undefined THEN rejectWith(s, c, NoViewport)
       ELSE IF options[1].imageIds = Undefined THEN rejectWith(s, c, NoImageIds)
       ELSE IF ~allCached(options[1].imageIds[1]) THEN rejectWith(s, c, NotCached)
       ELSE LET s1 == createAndCacheDerivedLabelmapImages(s, c, options[1].imageIds[1])
            IN [s1 EXCEPT !.conversions[c].pc = "awaitImages"]

(* Lines 131-221: up to the await of the worker task *)
convertContourToStackLabelmap_images(s, c) ==
    LET s1 == triggerWorkerProgress(s, c, 0, "start")
        s2 == executeTask(s1, c)
    IN [s2 EXCEPT !.conversions[c].pc = "awaitTask"]

RECURSIVE setScalarData(_, _, _)
setScalarData(s, c, n) ==
    IF n > Len(s.conversions[c].derived) THEN s
    ELSE LET segImageId == s.conversions[c].derived[n]
             referencedImageId == s.conversions[c].options[1].imageIds[1][n]
         IN setScalarData(
                [s EXCEPT !.labelmapCache[segImageId][1].scalarData =
                              workerResult(c, referencedImageId),
                          !.conversions[c].returned = Append(@, segImageId)],
                c, n + 1)

(* Lines 206, 223-239: from the worker task's result to the return *)
convertContourToStackLabelmap_resume(s, c) ==
    IF s.workerTasks[c].state = "rejected" THEN rejectWith(s, c, WorkerError)
    ELSE LET s1 == triggerWorkerProgress(s, c, 100, "end")
             s2 == setScalarData(s1, c, 1)
         IN [s2 EXCEPT !.conversions[c].pc = "resolved"]

(* The callback given to the worker task, lines 78-82 and 215-219 *)
progressCallback(s, c, progress) ==
    triggerWorkerProgress([s EXCEPT !.workerTasks[c].callbacksLeft = @ - 1],
                          c, progress, "callback")

(* No conversion called yet *)
ConvertIdle ==
    /\ conversions = [c \in ConversionCalls |-> NotCalled]
    /\ workerTasks = [c \in ConversionCalls |-> [state |-> "none", callbacksLeft |-> 0]]
    /\ progressEvents = <<>>
    /\ labelmapCache = [id \in DerivedIds |-> Undefined]

-----------------------------------------------------------------------------
(* renderColorImage. An image has an id, a size, a colour flag and, when    *)
(* it was decoded by the browser, a canvas of its own; its pixel data is a  *)
(* sequence of stored values. A canvas has a size and a content; a context  *)
(* and an ImageData belong to the canvas they were taken from.              *)

MaxStoredValue == 2
MaxCanvases == 3

RenderImages ==
    [colorA |-> [color |-> TRUE, rgba |-> FALSE, width |-> 2, height |-> 1,
                 hasCanvas |-> TRUE],
     colorB |-> [color |-> TRUE, rgba |-> TRUE, width |-> 1, height |-> 1,
                 hasCanvas |-> FALSE],
     gray |-> [color |-> FALSE, rgba |-> FALSE, width |-> 2, height |-> 1,
               hasCanvas |-> FALSE]]

(* The stored values of an image before and after its pixel data changed *)
PixelData(imageId, version) ==
    [n \in 1..(RenderImages[imageId].width * RenderImages[imageId].height) |->
        (n + version) % (MaxStoredValue + 1)]

(* A number stored in a Uint8ClampedArray: clamped to 0..255 and rounded *)
(* to the nearest integer, a tie to the even one                         *)
ToUint8Clamped(r) ==
    LET floor == r.num \div r.den
        twice == 2 * (r.num - floor * r.den)
        rounded == IF twice > r.den \/ (twice = r.den /\ floor % 2 = 1)
                   THEN floor + 1 ELSE floor
    IN Max(0, Min(255, rounded))

(* generateColorLUT with the linear VOI function: fills image.cachedLut.lutArray *)
generateColorLUT(windowWidth, windowCenter, invert) ==
    [n \in 1..(MaxStoredValue + 1) |->
        LET value == RMul(RInt(255),
                          RAdd(RDiv(RSub(RInt(n - 1), RSub(RInt(windowCenter), Rat(1, 2))),
                                    RInt(windowWidth - 1)),
                               Rat(1, 2)))
        IN ToUint8Clamped(IF invert THEN RSub(RInt(255), value) ELSE value)]

applyLut(lutArray, pixelData) == [n \in 1..Len(pixelData) |-> lutArray[pixelData[n] + 1]]

NoRender ==
    [name |-> "none", invalidated |-> FALSE, threw |-> FALSE, error |-> "",
     path |-> "", getLutCalls |-> 0, lutGenerations |-> 0, lut |-> <<>>,
     putImageDataCalls |-> 0, returned |-> [kind |-> "none", data |-> <<>>]]

RenderState ==
    [element |-> cpuEnabledElement, images |-> images, canvases |-> canvases,
     op |-> NoRender]

currentImage(r) == r.images[r.element.image]

getLut_KeepsCached(r) ==
    LET viewport == r.element.viewport
        image == currentImage(r)
        lutArray == IF image.cachedLut # Undefined THEN image.cachedLut[1].lutArray
                    ELSE generateColorLUT(viewport.windowWidth, viewport.windowCenter,
                                          viewport.invert)
    IN [r EXCEPT !.op.getLutCalls = @ + 1, !.op.lut = lutArray,
                 !.images[r.element.image].cachedLut =
                     Some([windowWidth |-> viewport.windowWidth,
                           windowCenter |-> viewport.windowCenter,
                           invert |-> viewport.invert, lutArray |-> lutArray])]

getLut(r) ==
    LET viewport == r.element.viewport
        image == currentImage(r)
    IN IF /\ image.cachedLut # Undefined
          /\ image.cachedLut[1].windowCenter = viewport.windowCenter
          /\ image.cachedLut[1].windowWidth = viewport.windowWidth
          /\ image.cachedLut[1].invert = viewport.invert
       THEN [r EXCEPT !.op.getLutCalls = @ + 1, !.op.lut = image.cachedLut[1].lutArray]
       ELSE LET lutArray == generateColorLUT(viewport.windowWidth,
                                             viewport.windowCenter, viewport.invert)
            IN [r EXCEPT !.op.getLutCalls = @ + 1,
                         !.op.lutGenerations = @ + 1,
                         !.op.lut = lutArray,
                         !.images[r.element.image].cachedLut =
                             Some([windowWidth |-> viewport.windowWidth,
                                   windowCenter |-> viewport.windowCenter,
                                   invert |-> viewport.invert,
                                   lutArray |-> lutArray])]

(* A new canvas: one that nothing refers to any more, emptied *)
createCanvas(r, width, height) ==
    LET tools == r.element.renderingTools
        id == CHOOSE c \in 1..MaxCanvases :
                  Some(c) \notin {tools.renderCanvas, tools.renderCanvasContext}
    IN [[r EXCEPT !.canvases[id] = [width |-> width, height |-> height,
                                    content |-> [kind |-> "blank", data |-> <<>>]]]
           EXCEPT !.element.renderingTools.renderCanvas = Some(id)]

(* Sizes the render canvas for the image, fills it white and keeps its *)
(* context and its ImageData                                           *)
initializeRenderCanvas(r) ==
    LET id == r.element.renderingTools.renderCanvas[1]
        info == RenderImages[r.element.image]
    IN [r EXCEPT !.canvases[id] = [width |-> info.width, height |-> info.height,
                                   content |-> [kind |-> "white", data |-> <<>>]],
                 !.element.renderingTools.renderCanvasContext = Some(id)]

doesImageNeedToBeRendered(r) ==
    LET tools == r.element.renderingTools
        viewport == r.element.viewport
    IN \/ r.element.image # tools.lastRenderedImageId
       \/ tools.lastRenderedViewport = Undefined
       \/ tools.lastRenderedViewport[1] # viewport

saveLastRendered(r) ==
    [r EXCEPT !.element.renderingTools.lastRenderedImageId = r.element.image,
              !.element.renderingTools.lastRenderedIsColor =
                  Some(RenderImages[r.element.image].color),
              !.element.renderingTools.lastRenderedViewport = Some(r.element.viewport)]

(* The canvas image.getCanvas() gives: the decoded image, no LUT applied *)
imageCanvas(r) ==
    [kind |-> "image", data |-> currentImage(r).pixelData]

(* renderCanvasContext.putImageData of the pixel data mapped by the LUT: *)
(* it draws on the canvas the context was taken from                    *)
putImageData(r, colorLUT) ==
    LET target == r.element.renderingTools.renderCanvasContext[1]
    IN [r EXCEPT !.canvases[target].content =
                     [kind |-> "pixels",
                      data |-> applyLut(colorLUT, currentImage(r).pixelData)],
                 !.op.putImageDataCalls = @ + 1]

returnCanvas(r, path, content) == [r EXCEPT !.op.path = path, !.op.returned = content]

renderCanvasContent(r) == r.canvases[r.element.renderingTools.renderCanvas[1]].content

(* getRenderCanvas, lines 60-138: a render canvas made at lines 67-73 is *)
(* not initialized there, only at lines 99-105 when there is no context   *)
(* or the sizes differ                                                    *)
getRenderCanvas(r0, invalidated) ==
    LET tools0 == r0.element.renderingTools
        info == RenderImages[r0.element.image]
        canvasWasColor == tools0.lastRenderedIsColor = Some(TRUE)
        r == IF tools0.renderCanvas = Undefined \/ ~canvasWasColor
             THEN createCanvas(r0, info.width, info.height)
             ELSE r0
        renderCanvas == r.canvases[r.element.renderingTools.renderCanvas[1]]
        viewport == r.element.viewport
    IN IF /\ viewport.windowWidth \in {256, 255}
          /\ viewport.windowCenter \in {128, 127}
          /\ ~viewport.invert
          /\ info.hasCanvas
       THEN returnCanvas(r, "fastPath", imageCanvas(r))
       ELSE IF ~doesImageNeedToBeRendered(r) /\ ~invalidated
       THEN returnCanvas(r, "cached", renderCanvasContent(r))
       ELSE LET r1 == IF \/ r.element.renderingTools.renderCanvasContext = Undefined
                         \/ renderCanvas.width # info.width
                         \/ renderCanvas.height # info.height
                      THEN initializeRenderCanvas(r)
                      ELSE r
                r2 == getLut(r1)
                r3 == putImageData(r2, r2.op.lut)
            IN returnCanvas(r3, "rendered", renderCanvasContent(r3))

renderColorImage(r, given, invalidated) ==
    IF ~given
    THEN [r EXCEPT !.op.threw = TRUE,
                   !.op.error = "renderColorImage: enabledElement parameter must not be undefined"]
    ELSE IF r.element.image = "undefined"
    THEN [r EXCEPT !.op.threw = TRUE,
                   !.op.error = "renderColorImage: image must be loaded before it can be drawn"]
    ELSE LET r1 == getRenderCanvas(r, invalidated)
         IN saveLastRendered([r1 EXCEPT !.element.displayed = r1.op.returned])

(* The renderer of the images that are not colour images: it keeps its own *)
(* canvas, context and ImageData in the same renderingTools                *)
renderGrayscaleImage(r0) ==
    LET info == RenderImages[r0.element.image]
        r == IF \/ r0.element.renderingTools.renderCanvas = Undefined
                \/ r0.element.renderingTools.lastRenderedIsColor = Some(TRUE)
             THEN initializeRenderCanvas(createCanvas(r0, info.width, info.height))
             ELSE r0
        r1 == [r EXCEPT !.canvases[r.element.renderingTools.renderCanvas[1]].content =
                            [kind |-> "gray", data |-> currentImage(r).pixelData]]
    IN saveLastRendered([r1 EXCEPT !.element.displayed = renderCanvasContent(r1),
                                   !.op.path = "rendered",
                                   !.op.returned = renderCanvasContent(r1)])

Windows == {<<256, 128>>, <<255, 127>>, <<100, 50>>}

(* The enabled element of a new viewport: no image, nothing rendered *)
RenderIdle ==
    /\ cpuEnabledElement =
           [image |-> "undefined",
            viewport |-> [windowWidth |-> 256, windowCenter |-> 128, invert |-> FALSE],
            renderingTools |-> [renderCanvas |-> Undefined,
                                renderCanvasContext |-> Undefined,
                                lastRenderedImageId |-> "undefined",
                                lastRenderedIsColor |-> Undefined,
                                lastRenderedViewport |-> Undefined],
            displayed |-> [kind |-> "none", data |-> <<>>]]
    /\ images = [id \in DOMAIN RenderImages |->
                    [pixelData |-> PixelData(id, 0), cachedLut |-> Undefined]]
    /\ canvases = [c \in 1..MaxCanvases |->
                      [width |-> 0, height |-> 0,
                       content |-> [kind |-> "blank", data |-> <<>>]]]
    /\ renderStepsLeft = 0
    /\ renderOp = NoRender

(* The ZoomTool after construction, lines 21-49 *)
ZoomToolInit ==
    /\ initialMousePosWorld = <<RInt(0), RInt(0)>>
    /\ dirVec = <<RInt(0), RInt(0)>>
    /\ zoomOp = [handler |-> "none", returned |-> "undefined", setCameraCalls |-> 0,
                 renderCalls |-> 0, parallelZooms |-> 0]

(* A viewport of dimensions[0] x dimensions[1] pixels on a canvas of size *)
ZoomEnv(type, hasImageData, size, displayArea, configuration) ==
    [viewportType |-> type, hasImageData |-> hasImageData, size |-> size,
     dimensions |-> <<20, 10>>, spacing |-> <<RInt(1), RInt(1)>>,
     displayArea |-> displayArea, configuration |-> configuration]

ZoomCamera(parallelProjection, parallelScale) ==
    [parallelProjection |-> parallelProjection, parallelScale |-> parallelScale,
     focalPoint |-> <<RInt(0), RInt(0)>>,
     position |-> <<RInt(0), RInt(PerspectiveDistance)>>]

(* The ZoomTool while no event reaches it *)
ZoomIdle ==
    /\ ZoomToolInit
    /\ zoomEnv = ZoomEnv("stack", TRUE, <<10, 10>>, Undefined, DefaultZoomConfiguration)
    /\ zoomCamera = ZoomCamera(TRUE, RInt(11))
    /\ zoomStepsLeft = 0

(* The tool after construction: isDrawing and editData are not assigned *)
ToolInit ==
    /\ isDrawing = Undefined
    /\ editData = Undefined
    /\ listeners = [e \in Elements |-> {}]
    /\ cursorHidden = [e \in Elements |-> FALSE]
    /\ activeSegmentations = [v \in ViewportIds |-> Undefined]
    /\ applied = Undefined
    /\ scissorsOp = [handler |-> "none", element |-> UndefinedElement,
                     returned |-> "undefined", threw |-> FALSE, error |-> "",
                     defaultPrevented |-> FALSE, renderTriggered |-> FALSE]

Init == CineInit /\ ToolInit /\ ZoomIdle /\ EraseIdle /\ ConvertIdle /\ RenderIdle

Next == PlayClip \/ StopClip \/ Tick

Spec == Init /\ [][Next]_vars

-----------------------------------------------------------------------------
(* The CINE player run through its playback modes: clips started forward   *)
(* or reversed, looping, bouncing or stopping at the end, on every kind of *)
(* viewport, and their ticks                                               *)

ClipModeOptions ==
    {[NoPlayClipOptions EXCEPT !.reverse = reverse, !.loop = loop, !.bounce = bounce] :
        reverse \in {Undefined, Some(TRUE)},
        loop \in {Undefined, Some(FALSE)},
        bounce \in {Undefined, Some(TRUE)}}

PlayClipInMode ==
    \E element \in Elements, options \in ClipModeOptions :
        LET r == playClip(CineState, element, options, TRUE)
        IN /\ Commit(r.state)
           /\ lastOp' = Op("playClip", element, options.framesPerSecond,
                           options.dynamicCineEnabled, NoStopClipOptions, r,
                           Undefined, FALSE)

ClipModesNext == PlayClipInMode \/ Tick

SpecClipModes == Init /\ [][ClipModesNext]_vars

-----------------------------------------------------------------------------
(* The state machine of the RectangleScissorsTool: the mouse and touch      *)
(* events of the elements, and the segmentation state changing around them  *)

ToolOp(st, handler, element) ==
    [handler |-> handler, element |-> element,
     returned |-> st.returned, threw |-> st.threw, error |-> st.error,
     defaultPrevented |-> st.defaultPrevented, renderTriggered |-> st.renderTriggered]

CommitTool(st) ==
    /\ isDrawing' = st.isDrawing
    /\ editData' = st.editData
    /\ listeners' = st.listeners
    /\ cursorHidden' = st.cursorHidden
    /\ applied' = st.applied
    /\ UNCHANGED <<activeSegmentations, outsideScissors>>

(* A stack viewport and a volume viewport, no clip playing *)
ScissorsLayout == Layout("StackViewport", <<>>, "VolumeViewport3D", <<"staticVolume">>)

ScissorsInit ==
    /\ CineInit
    /\ viewportType = ScissorsLayout.viewportType
    /\ volumeIds = ScissorsLayout.volumeIds
    /\ numScrollSteps = 1
    /\ ToolInit
    /\ ZoomIdle
    /\ EraseIdle
    /\ ConvertIdle
    /\ RenderIdle

MouseDown ==
    \E element \in Elements, worldPos \in WorldPoints :
        LET st == preMouseDownCallback(ScissorsState, element, worldPos)
        IN /\ CommitTool(st)
           /\ scissorsOp' = ToolOp(st, "preMouseDownCallback", element)

MouseDrag ==
    \E element \in Elements, worldPos \in WorldPoints :
        /\ listeners[element] \cap DragEvents # {}
        /\ LET st == _dragCallback(ScissorsState, element, worldPos)
           IN /\ CommitTool(st)
              /\ scissorsOp' = ToolOp(st, "_dragCallback", element)

MouseUp ==
    \E element \in Elements :
        /\ listeners[element] \cap EndEvents # {}
        /\ LET st == _endCallback(ScissorsState, element)
           IN /\ CommitTool(st)
              /\ scissorsOp' = ToolOp(st, "_endCallback", element)

SetActiveSegmentation ==
    \E viewportId \in ViewportIds, segmentation \in {Undefined} \cup {Some(g) : g \in Segmentations} :
        /\ activeSegmentations' = [activeSegmentations EXCEPT ![viewportId] = segmentation]
        /\ UNCHANGED <<isDrawing, editData, listeners, cursorHidden, applied, scissorsOp,
                       outsideScissors>>

ScissorsNext == MouseDown \/ MouseDrag \/ MouseUp \/ SetActiveSegmentation

SpecScissors == ScissorsInit /\ [][ScissorsNext]_vars

-----------------------------------------------------------------------------
(* The state machine of the ZoomTool: the events of one viewport *)

MaxZoomSteps == 3

CineIdle ==
    /\ CineInit
    /\ viewportType = ScissorsLayout.viewportType
    /\ volumeIds = ScissorsLayout.volumeIds
    /\ numScrollSteps = 1

ZoomEnvs ==
    {ZoomEnv("stack", TRUE, <<10, 10>>, Undefined, c) : c \in ZoomConfigurations}
    \cup {ZoomEnv("orthographic", TRUE, <<30, 10>>, Some(<<RInt(1), RInt(1)>>),
                  DefaultZoomConfiguration),
          ZoomEnv("orthographic", FALSE, <<10, 10>>, Undefined,
                  DefaultZoomConfiguration)}

InitialParallelScales == {RInt(11), RInt(6000)}

ZoomWorldPoints == {<<RInt(x), zoomCamera.focalPoint[2]>> : x \in {0, 2}}
ZoomDeltas == {-4, 1, 4}

ZoomInit ==
    /\ CineIdle
    /\ ToolInit
    /\ ZoomToolInit
    /\ zoomEnv \in ZoomEnvs
    /\ \E parallelProjection \in BOOLEAN, parallelScale \in InitialParallelScales :
           zoomCamera = ZoomCamera(parallelProjection, parallelScale)
    /\ zoomStepsLeft = MaxZoomSteps
    /\ EraseIdle
    /\ ConvertIdle
    /\ RenderIdle

ZoomOp(z, handler) ==
    [handler |-> handler, returned |-> z.returned, setCameraCalls |-> z.setCameraCalls,
     renderCalls |-> z.renderCalls, parallelZooms |-> z.parallelZooms]

CommitZoom(z) ==
    /\ zoomStepsLeft > 0
    /\ zoomStepsLeft' = zoomStepsLeft - 1
    /\ zoomCamera' = z.camera
    /\ initialMousePosWorld' = z.initialMousePosWorld
    /\ dirVec' = z.dirVec
    /\ UNCHANGED <<zoomEnv, outsideZoom>>

ZoomMouseDown ==
    \E worldPos \in ZoomWorldPoints :
        LET z == ZoomTool_preMouseDownCallback(ZoomState, worldPos)
        IN /\ CommitZoom(z)
           /\ zoomOp' = ZoomOp(z, "preMouseDownCallback")

ZoomMouseDrag ==
    \E deltaY \in ZoomDeltas :
        LET z == ZoomTool_dragCallback(ZoomState, zoomEnv, deltaY)
        IN /\ CommitZoom(z)
           /\ zoomOp' = ZoomOp(z, "mouseDragCallback")

ZoomTouchStart ==
    \E worldPos \in ZoomWorldPoints :
        LET z == preTouchStartCallback(ZoomState, zoomEnv, worldPos)
        IN /\ CommitZoom(z)
           /\ zoomOp' = ZoomOp(z, "preTouchStartCallback")

ZoomTouchDrag ==
    \E numPoints \in {1, 2}, worldPos \in ZoomWorldPoints, delta \in ZoomDeltas :
        LET z == touchDragCallback(ZoomState, zoomEnv, numPoints, worldPos, delta,
                                   delta, 1)
        IN /\ CommitZoom(z)
           /\ zoomOp' = ZoomOp(z, "touchDragCallback")

ZoomMouseWheel ==
    \E worldPos \in ZoomWorldPoints, direction \in {-1, 1} :
        LET z == _zoom(ZoomState, zoomEnv, worldPos, direction)
        IN /\ CommitZoom(z)
           /\ zoomOp' = ZoomOp(z, "mouseWheelCallback")

ZoomNext ==
    ZoomMouseDown \/ ZoomMouseDrag \/ ZoomTouchStart \/ ZoomTouchDrag \/ ZoomMouseWheel

SpecZoom == ZoomInit /\ [][ZoomNext]_vars

-----------------------------------------------------------------------------
(* The erase operations on one segmentation volume *)

MaxEraseCalls == 1

(* Labelmaps: one segment, two segments in layers, in columns, in a checkerboard *)
Labelmaps ==
    {[n \in 1..NumVoxels |-> 1],
     [n \in 1..NumVoxels |-> IF n <= NumVoxels \div 2 THEN 1 ELSE 2],
     [n \in 1..NumVoxels |-> 1 + (n % 2)],
     [n \in 1..NumVoxels |-> IF n \in {1, 4, 6, 7} THEN 2 ELSE 1]}

(* The corners of a rectangle from p along the edges u and v *)
RectanglePoints(p, u, v) ==
    LET plus(a, b) == [c \in 1..3 |-> a[c] + b[c]]
    IN <<p, plus(p, u), plus(p, v), plus(plus(p, u), v)>>

(* Rectangles drawn from a point of the volume: in an axial, a coronal and *)
(* a sagittal plane, in a plane through the second axis that is oblique to *)
(* the other two, and one of no width                                      *)
RectangleEdges ==
    {<<<<3, 0, 0>>, <<0, 3, 0>>>>, <<<<-3, 0, 0>>, <<0, 0, 3>>>>,
     <<<<0, 3, 0>>, <<0, 0, -3>>>>, <<<<4, 0, 4>>, <<0, 3, 0>>>>,
     <<<<-4, 0, 4>>, <<0, -3, 0>>>>, <<<<0, 0, 0>>, <<0, 3, 0>>>>}

Rectangles ==
    {RectanglePoints(p, e[1], e[2]) :
        p \in {1, 4} \X {1, 4} \X {1, 4}, e \in RectangleEdges}

SegmentsLocked == {{}, {1}, {1, 2}}

EraseInit ==
    /\ CineIdle
    /\ ToolInit
    /\ ZoomIdle
    /\ scalarData \in Labelmaps
    /\ eraseCallsLeft = MaxEraseCalls
    /\ eraseOp = NoErase
    /\ ConvertIdle
    /\ RenderIdle

CommitErase(r) ==
    /\ eraseCallsLeft > 0
    /\ eraseCallsLeft' = eraseCallsLeft - 1
    /\ scalarData' = r.scalarData
    /\ UNCHANGED outsideErase

EraseOp(r, name, points, segmentsLocked) ==
    [name |-> name, points |-> points, segmentsLocked |-> segmentsLocked,
     threw |-> r.threw, error |-> r.error, dataModifiedEvents |-> r.dataModifiedEvents]

EraseInside ==
    \E points \in Rectangles, segmentsLocked \in SegmentsLocked :
        LET r == eraseInsideRectangle(scalarData, points, segmentsLocked)
        IN /\ CommitErase(r)
           /\ eraseOp' = EraseOp(r, "eraseInsideRectangle", points, segmentsLocked)

EraseOutside ==
    \E points \in Rectangles, segmentsLocked \in SegmentsLocked :
        LET r == eraseOutsideRectangle(scalarData, points, segmentsLocked)
        IN /\ CommitErase(r)
           /\ eraseOp' = EraseOp(r, "eraseOutsideRectangle", points, segmentsLocked)

EraseNext == EraseInside \/ EraseOutside

SpecErase == EraseInit /\ [][EraseNext]_vars

-----------------------------------------------------------------------------
(* The conversions and their worker tasks *)

ViewportImageIds ==
    {Undefined, Some(<<>>), Some(<<"image1">>), Some(<<"image1", "image2">>),
     Some(<<"image1", "image3">>)}

ConversionOptions ==
    {Undefined} \cup {Some([volumeId |-> "volume", imageIds |-> ids]) :
                         ids \in ViewportImageIds}

ProgressValues == {50, 100}

ConvertInit ==
    /\ CineIdle
    /\ ToolInit
    /\ ZoomIdle
    /\ EraseIdle
    /\ ConvertIdle
    /\ RenderIdle

CommitConvert(s) ==
    /\ conversions' = s.conversions
    /\ workerTasks' = s.workerTasks
    /\ progressEvents' = s.progressEvents
    /\ labelmapCache' = s.labelmapCache
    /\ UNCHANGED outsideConvert

FreeIds(n) == Cardinality({id \in DerivedIds : labelmapCache[id] = Undefined}) >= n

ConvertVolume ==
    \E c \in ConversionCalls, options \in ConversionOptions :
        /\ conversions[c].pc = "notCalled"
        /\ FreeIds(1)
        /\ CommitConvert(convertContourToVolumeLabelmap(ConvertState, c, options))

ConvertStack ==
    \E c \in ConversionCalls, options \in ConversionOptions :
        /\ conversions[c].pc = "notCalled"
        /\ FreeIds(2)
        /\ CommitConvert(convertContourToStackLabelmap(ConvertState, c, options))

StackImagesCreated ==
    \E c \in ConversionCalls :
        /\ conversions[c].pc = "awaitImages"
        /\ CommitConvert(convertContourToStackLabelmap_images(ConvertState, c))

WorkerProgress ==
    \E c \in ConversionCalls, progress \in ProgressValues :
        /\ workerTasks[c].state = "running"
        /\ workerTasks[c].callbacksLeft > 0
        /\ CommitConvert(progressCallback(ConvertState, c, progress))

WorkerSettles ==
    \E c \in ConversionCalls, outcome \in {"resolved", "rejected"} :
        /\ workerTasks[c].state = "running"
        /\ workerTasks' = [workerTasks EXCEPT ![c].state = outcome]
        /\ UNCHANGED <<conversions, progressEvents, labelmapCache, outsideConvert>>

ResumeVolume ==
    \E c \in ConversionCalls :
        /\ conversions[c].kind = "volume" /\ conversions[c].pc = "awaitTask"
        /\ workerTasks[c].state \in {"resolved", "rejected"}
        /\ CommitConvert(convertContourToVolumeLabelmap_resume(ConvertState, c))

ResumeStack ==
    \E c \in ConversionCalls :
        /\ conversions[c].kind = "stack" /\ conversions[c].pc = "awaitTask"
        /\ workerTasks[c].state \in {"resolved", "rejected"}
        /\ CommitConvert(convertContourToStackLabelmap_resume(ConvertState, c))

ConvertNext ==
    \/ ConvertVolume \/ ConvertStack \/ StackImagesCreated \/ WorkerProgress
    \/ WorkerSettles \/ ResumeVolume \/ ResumeStack

SpecConvert == ConvertInit /\ [][ConvertNext]_vars

-----------------------------------------------------------------------------
(* The CPU fallback rendering of one enabled element *)

MaxRenderSteps == 5

Viewports ==
    {[windowWidth |-> window[1], windowCenter |-> window[2], invert |-> invert] :
        window \in Windows, invert \in BOOLEAN}

(* An enabled element that shows no image or one of the images, not yet *)
(* rendered                                                             *)
RenderInit ==
    /\ CineIdle
    /\ ToolInit
    /\ ZoomIdle
    /\ EraseIdle
    /\ ConvertIdle
    /\ \E id \in DOMAIN RenderImages \cup {"undefined"}, viewport \in Viewports :
           cpuEnabledElement =
               [image |-> id, viewport |-> viewport,
                renderingTools |-> [renderCanvas |-> Undefined,
                                    renderCanvasContext |-> Undefined,
                                    lastRenderedImageId |-> "undefined",
                                    lastRenderedIsColor |-> Undefined,
                                    lastRenderedViewport |-> Undefined],
                displayed |-> [kind |-> "none", data |-> <<>>]]
    /\ images = [id \in DOMAIN RenderImages |->
                    [pixelData |-> PixelData(id, 0), cachedLut |-> Undefined]]
    /\ canvases = [c \in 1..MaxCanvases |->
                      [width |-> 0, height |-> 0,
                       content |-> [kind |-> "blank", data |-> <<>>]]]
    /\ renderStepsLeft = MaxRenderSteps
    /\ renderOp = NoRender

RenderStep ==
    /\ renderStepsLeft > 0
    /\ renderStepsLeft' = renderStepsLeft - 1
    /\ UNCHANGED outsideRender

CommitRender(r) ==
    /\ RenderStep
    /\ cpuEnabledElement' = r.element
    /\ images' = r.images
    /\ canvases' = r.canvases

RenderColorImage ==
    \E given \in BOOLEAN, invalidated \in BOOLEAN :
        LET r == renderColorImage(RenderState, given, invalidated)
        IN /\ IF cpuEnabledElement.image = "undefined" THEN TRUE
              ELSE RenderImages[cpuEnabledElement.image].color
           /\ CommitRender(r)
           /\ renderOp' = [r.op EXCEPT !.name = "renderColorImage",
                                       !.invalidated = invalidated]

RenderGrayscaleImage ==
    LET r == renderGrayscaleImage(RenderState)
    IN /\ cpuEnabledElement.image # "undefined"
       /\ ~RenderImages[cpuEnabledElement.image].color
       /\ CommitRender(r)
       /\ renderOp' = [r.op EXCEPT !.name = "renderGrayscaleImage"]

SetImage ==
    \E id \in DOMAIN RenderImages :
        /\ RenderStep
        /\ cpuEnabledElement' = [cpuEnabledElement EXCEPT !.image = id]
        /\ renderOp' = [NoRender EXCEPT !.name = "setImage"]
        /\ UNCHANGED <<images, canvases>>

SetViewport ==
    \E viewport \in Viewports :
        /\ RenderStep
        /\ cpuEnabledElement' = [cpuEnabledElement EXCEPT !.viewport = viewport]
        /\ renderOp' = [NoRender EXCEPT !.name = "setViewport"]
        /\ UNCHANGED <<images, canvases>>

(* The pixel data of the image shown is replaced *)
ModifyPixelData ==
    /\ RenderStep
    /\ cpuEnabledElement.image # "undefined"
    /\ images' = [images EXCEPT ![cpuEnabledElement.image].pixelData =
                      PixelData(cpuEnabledElement.image, 1)]
    /\ renderOp' = [NoRender EXCEPT !.name = "modifyPixelData"]
    /\ UNCHANGED <<cpuEnabledElement, canvases>>

RenderNext ==
    RenderColorImage \/ RenderGrayscaleImage \/ SetImage \/ SetViewport \/ ModifyPixelData

SpecRender == RenderInit /\ [][RenderNext]_vars

-----------------------------------------------------------------------------
(* Properties of the CINE player *)

TimersOf(element) == {t \in timers : t.element = element}
HasData(element) == toolState[ViewportId[element]] # NoData
Data(element) == toolState[ViewportId[element]][1]

PlayClipReturned(op) == op.op = "playClip" /\ ~op.threw
PlayClipReturnedOn(op, element) == PlayClipReturned(op) /\ op.element = element
OnStackOrVolume(element) == isStackViewport(element) \/ isVolumeViewport(element)

C2_DirectionFixedByRate ==
    (/\ lastOp.op = "tick"
     /\ ~lastOp.outOfRange
     /\ lastOp.framesPerSecond # Undefined)
    => lastOp.delta = Some(IF lastOp.framesPerSecond[1] < 0 THEN -1 ELSE 1)

(* C2 amended: when playClip returns after a call with framesPerSecond < 0  *)
(* (> 0), reverse is true (false) and a pending timer is an interval of     *)
(* 1000/|framesPerSecond| ms; every in-range tick asks the play context to  *)
(* scroll by -1 when reverse is true and by +1 when it is false, and a tick *)
(* changes reverse only when it is out of range and bounce is on.           *)
C2_DirectionFollowsReverse ==
    [][/\ \A e \in Elements :
            (PlayClipReturnedOn(lastOp', e) /\ lastOp'.framesPerSecond # Undefined)
            => /\ toolState'[ViewportId[e]][1].reverse = (lastOp'.framesPerSecond[1] < 0)
               /\ \A t \in timers' :
                     t.element = e
                     => /\ ~t.isTimeout
                        /\ t.delay = Delay(1000, Abs(lastOp'.framesPerSecond[1]))
       /\ \A e \in Elements :
            (lastOp'.op = "tick" /\ lastOp'.element = e)
            => /\ ~lastOp'.outOfRange
                  => /\ lastOp'.delta = Some(IF Data(e).reverse THEN -1 ELSE 1)
                     /\ toolState'[ViewportId[e]][1].reverse = Data(e).reverse
               /\ toolState'[ViewportId[e]][1].reverse # Data(e).reverse
                  => lastOp'.outOfRange /\ Data(e).bounce]_vars

(* C2 witness: an in-range tick of a clip started with a negative rate      *)
(* scrolls by -1.                                                           *)
C2_Witness ==
    /\ lastOp.op = "tick"
    /\ ~lastOp.outOfRange
    /\ lastOp.framesPerSecond = Some(-10)
    /\ lastOp.delta = Some(-1)
    /\ Data(lastOp.element).reverse

(* C3: each element has at most one pending timer, and it is the timer its  *)
(* tool state records in intervalId, also after playClip restarts a clip.   *)
C3_OneTimerPerElement ==
    \A e \in Elements :
        /\ Cardinality(TimersOf(e)) <= 1
        /\ \A t \in TimersOf(e) : HasData(e) /\ Data(e).intervalId = Some(t.id)
        /\ (HasData(e) /\ Data(e).intervalId # Undefined) => TimersOf(e) # {}

(* C3 witness: playClip was called on an element whose clip was running,    *)
(* and one timer is pending.                                                *)
C3_Witness ==
    \E e \in Elements :
        /\ PlayClipReturnedOn(lastOp, e)
        /\ lastOp.wasPlaying
        /\ Cardinality(TimersOf(e)) = 1

Playing(element) == TimersOf(element) # {} \/ video[element].playing
PlainStopClipOn(op, element) ==
    op.op = "stopClip" /\ op.element = element /\ op.stopOptions = NoStopClipOptions
DynamicVolumeOf(element) ==
    IF isVolumeViewport(element)
       /\ _getVolumeFromViewport(element) # Undefined
       /\ isDynamicVolume(_getVolumeFromViewport(element)[1])
    THEN _getVolumeFromViewport(element)
    ELSE Undefined

(* C4 as stated: stopClip(element) leaves the element with intervalId       *)
(* undefined and no pending timer, and stopClip on an element that is not   *)
(* playing changes nothing.                                                 *)
C4_StopClipOfIdleChangesNothing ==
    [][\A e \in Elements :
        PlainStopClipOn(lastOp', e)
        => /\ \A t \in timers' : t.element # e
           /\ HasData(e) => toolState'[ViewportId[e]][1].intervalId = Undefined
           /\ ~Playing(e)
              => UNCHANGED <<toolState, timers, dynamicVolumesPlayingMap, video,
                             stepIndex, dimensionGroupNumber>>]_vars

(* C4 amended: stopClip(element) leaves the element with intervalId         *)
(* undefined, no pending timer and its video paused, and the element gets a *)
(* timer again only by playClip on it. stopClip on an element that is not   *)
(* playing leaves that element's tool state and every viewport position     *)
(* unchanged; it changes something else only on a volume viewport whose     *)
(* dynamic volume has an entry in dynamicVolumesPlayingMap: the entry is    *)
(* deleted and the clip of the element registered there is stopped.         *)
C4_StopClipStopsElement ==
    [][\A e \in Elements :
        /\ PlainStopClipOn(lastOp', e)
           => /\ \A t \in timers' : t.element # e
              /\ HasData(e) => toolState'[ViewportId[e]][1].intervalId = Undefined
              /\ ~video'[e].playing
              /\ ~Playing(e)
                 => /\ toolState'[ViewportId[e]] = toolState[ViewportId[e]]
                    /\ UNCHANGED <<video, stepIndex, dimensionGroupNumber>>
                    /\ dynamicVolumesPlayingMap' # dynamicVolumesPlayingMap
                       => /\ DynamicVolumeOf(e) # Undefined
                          /\ dynamicVolumesPlayingMap' =
                                [dynamicVolumesPlayingMap EXCEPT
                                    ![DynamicVolumeOf(e)[1]] = Undefined]
                    /\ \A o \in Elements \ {e} :
                          (\/ toolState'[ViewportId[o]] # toolState[ViewportId[o]]
                           \/ {t \in timers' : t.element = o} # TimersOf(o))
                          => /\ DynamicVolumeOf(e) # Undefined
                             /\ dynamicVolumesPlayingMap[DynamicVolumeOf(e)[1]] = Some(o)
                             /\ \A t \in timers' : t.element # o
        /\ (TimersOf(e) = {} /\ \E t \in timers' : t.element = e)
           => PlayClipReturnedOn(lastOp', e)]_vars

(* C4 witness: stopClip(element) returned on an element whose clip was      *)
(* running, and no timer of the element is pending.                         *)
C4_Witness ==
    \E e \in Elements :
        /\ PlainStopClipOn(lastOp, e)
        /\ lastOp.wasPlaying
        /\ TimersOf(e) = {}
        /\ Data(e).intervalId = Undefined

DynamicTimers(volumeId) ==
    {t \in timers : t.context.kind = "dynamic" /\ t.context.volumeId = volumeId}

(* C5: at most one element has a pending timer that plays a dynamic volume  *)
(* in time, it is the element dynamicVolumesPlayingMap registers, and after *)
(* playClip started the 4D clip of the volume it is the element of the call *)
C5_One4DCinePerVolume ==
    \A v \in VolumeIdSet :
        /\ Cardinality(DynamicTimers(v)) <= 1
        /\ \A t \in DynamicTimers(v) : dynamicVolumesPlayingMap[v] = Some(t.element)
        /\ \A e \in Elements :
              (/\ PlayClipReturnedOn(lastOp, e)
               /\ lastOp.dynamicCineEnabled # Some(FALSE)
               /\ DynamicVolumeOf(e) = Some(v))
              => {t.element : t \in DynamicTimers(v)} = {e}

(* C5 witness: playClip started the 4D clip on an element after stopping    *)
(* the clip of the other element, whose tool state remains.                 *)
C5_Witness ==
    \E e \in Elements : \E o \in Elements \ {e} :
        /\ PlayClipReturnedOn(lastOp, e)
        /\ lastOp.stopClipCalls = 1
        /\ DynamicVolumeOf(e) # Undefined
        /\ {t.element : t \in DynamicTimers(DynamicVolumeOf(e)[1])} = {e}
        /\ HasData(o)
        /\ Data(o).dynamicCineEnabled = Some(TRUE)
        /\ Data(o).intervalId = Undefined

(* C6 as stated: neither playClip with dynamicCineEnabled false nor a tick  *)
(* of a clip started that way clears the timer of another element that      *)
(* plays a dynamic volume in time.                                          *)
C6_3DCineKeeps4DCine ==
    [][(/\ lastOp'.op \in {"playClip", "tick"}
        /\ lastOp'.dynamicCineEnabled = Some(FALSE))
       => \A t \in timers :
             (t.element # lastOp'.element /\ t.context.kind = "dynamic")
             => t \in timers']_vars

(* C7: stopClip(element) on a volume viewport whose dynamic volume is       *)
(* registered to another element stops that element's clip and deletes the  *)
(* entry with two stopClip calls in all, and no call of stopClip or         *)
(* playClip and no tick nests stopClip deeper than the number of elements.  *)
C7_StopClipStopsRegisteredElement ==
    [][/\ ~lastOp'.overflow
       /\ lastOp'.stopClipCalls <= Cardinality(Elements)
       /\ \A e \in Elements : \A o \in Elements \ {e} :
             (/\ PlainStopClipOn(lastOp', e)
              /\ DynamicVolumeOf(e) # Undefined
              /\ dynamicVolumesPlayingMap[DynamicVolumeOf(e)[1]] = Some(o))
             => /\ \A t \in timers' : t.element # o
                /\ toolState'[ViewportId[o]][1].intervalId = Undefined
                /\ dynamicVolumesPlayingMap'[DynamicVolumeOf(e)[1]] = Undefined
                /\ lastOp'.stopClipCalls = 2]_vars

(* C7 witness: stopClip(element) called stopClip a second time, for the     *)
(* other element, and no timer is left.                                     *)
C7_Witness ==
    \E e \in Elements : \E o \in Elements \ {e} :
        /\ PlainStopClipOn(lastOp, e)
        /\ lastOp.stopClipCalls = 2
        /\ HasData(o)
        /\ Data(o).dynamicCineEnabled = Some(TRUE)
        /\ timers = {}

NonZero(framesPerSecond) == framesPerSecond # Undefined /\ framesPerSecond[1] # 0
Uniform(timeouts) == \A i, j \in DOMAIN timeouts : timeouts[i] = timeouts[j]

(* C8 as stated: after playClip with a non-zero framesPerSecond the clip of *)
(* the element runs on a setInterval timer.                                 *)
C8_RateGivenStartsInterval ==
    \A e \in Elements :
        (PlayClipReturnedOn(lastOp, e) /\ NonZero(lastOp.framesPerSecond))
        => \E t \in TimersOf(e) : ~t.isTimeout

(* C8 amended: after playClip with a non-zero framesPerSecond the frame     *)
(* time vector is ignored and, unless the viewport is a video viewport      *)
(* (which plays the video and starts no timer), the clip runs on a          *)
(* setInterval of 1000/|framesPerSecond| ms; playClip starts the setTimeout *)
(* chain only when no framesPerSecond was given, the vector length equals   *)
(* numScrollSteps, the play context enables the vector (never the dynamic   *)
(* one) and the timeouts are not uniform.                                   *)
C8_FrameTimeVectorUse ==
    \A e \in Elements :
        PlayClipReturnedOn(lastOp, e)
        => /\ NonZero(lastOp.framesPerSecond)
              => /\ Data(e).ignoreFrameTimeVector
                 /\ ~Data(e).usingFrameTimeVector
                 /\ IF isVideoViewport(e)
                    THEN TimersOf(e) = {}
                    ELSE /\ TimersOf(e) # {}
                         /\ \A t \in TimersOf(e) :
                               /\ ~t.isTimeout
                               /\ t.delay = Delay(1000, Abs(lastOp.framesPerSecond[1]))
           /\ \A t \in TimersOf(e) :
                 t.isTimeout
                 => /\ lastOp.framesPerSecond = Undefined
                    /\ Data(e).frameTimeVector # Undefined
                    /\ Len(Data(e).frameTimeVector[1]) = numScrollSteps
                    /\ t.context.frameTimeVectorEnabled
                    /\ t.context.kind # "dynamic"
                    /\ ~Uniform(t.timeouts)
                    /\ Data(e).usingFrameTimeVector

(* C8 witness: playClip with a framesPerSecond on an element whose tool     *)
(* state holds a time-varying vector of the length of the clip starts an    *)
(* interval.                                                                *)
C8_Witness ==
    \E e \in Elements :
        /\ PlayClipReturnedOn(lastOp, e)
        /\ NonZero(lastOp.framesPerSecond)
        /\ Data(e).frameTimeVector # Undefined
        /\ Len(Data(e).frameTimeVector[1]) = numScrollSteps
        /\ _getPlayClipTimeouts(Data(e).frameTimeVector[1], Data(e).speed).isTimeVarying
        /\ \E t \in TimersOf(e) : ~t.isTimeout

(* C9: playClip on an undefined element, on an element that is not enabled  *)
(* or on a viewport of an unknown type throws, and adds no tool state,      *)
(* starts no timer, registers no dynamic volume and triggers no event.      *)
C9_PlayClipThrowsWithoutEffect ==
    [][(/\ lastOp'.op = "playClip"
        /\ \/ lastOp'.element \in {UndefinedElement, NotEnabledElement}
           \/ ~(\/ isStackViewport(lastOp'.element)
                \/ isVolumeViewport(lastOp'.element)
                \/ isVideoViewport(lastOp'.element)))
       => /\ lastOp'.threw
          /\ lastOp'.error =
                IF lastOp'.element = UndefinedElement
                THEN "playClip: element must not be undefined"
                ELSE IF lastOp'.element = NotEnabledElement
                THEN "playClip: element must be a valid Cornerstone enabled element"
                ELSE "Unknown viewport type"
          /\ lastOp'.events = <<>>
          /\ UNCHANGED <<toolState, timers, dynamicVolumesPlayingMap, video,
                         stepIndex, dimensionGroupNumber>>]_vars

(* C9 witness: playClip threw for a viewport of an unknown type while the   *)
(* clip of the other element keeps running.                                 *)
C9_Witness ==
    /\ lastOp.op = "playClip"
    /\ lastOp.threw
    /\ lastOp.error = "Unknown viewport type"
    /\ timers # {}

-----------------------------------------------------------------------------
(* Properties of the RectangleScissorsTool *)

Idle ==
    /\ isDrawing # Some(TRUE)
    /\ editData = Undefined
    /\ \A e \in Elements : listeners[e] = {}

(* C10 as stated: when preMouseDownCallback finds no active segmentation it *)
(* throws and leaves the tool idle (isDrawing not true, editData unset, no  *)
(* draw listener added), and a mouse-down on a viewport with an active      *)
(* segmentation, while no rectangle is being drawn, starts a drawing        *)
(* session.                                                                 *)
C10_ThrowLeavesToolIdle ==
    [][/\ (/\ scissorsOp'.handler = "preMouseDownCallback"
           /\ scissorsOp' # scissorsOp
           /\ scissorsOp'.threw)
          => /\ scissorsOp'.error = NoActiveSegmentation
             /\ isDrawing' # Some(TRUE)
             /\ editData' = Undefined
             /\ \A e \in Elements : listeners'[e] = {}
       /\ \A e \in Elements :
             (/\ scissorsOp'.handler = "preMouseDownCallback"
              /\ scissorsOp'.element = e
              /\ editData = Undefined
              /\ \A o \in Elements : listeners[o] = {}
              /\ activeSegmentations[ViewportId[e]] # Undefined
              /\ <<isDrawing, editData, listeners, cursorHidden, applied, scissorsOp>>'
                    # <<isDrawing, editData, listeners, cursorHidden, applied, scissorsOp>>)
             => /\ scissorsOp'.returned = "true"
                /\ isDrawing' = Some(TRUE)
                /\ editData' # Undefined
                /\ listeners'[e] = EndEvents \cup DragEvents]_vars

toolFields == <<isDrawing, editData, listeners, cursorHidden, applied>>

(* C11: a mouse-down while isDrawing is true returns undefined without      *)
(* preventing the default and leaves isDrawing, editData with its points,   *)
(* the listeners, the cursor and the labelmap as they are; while a          *)
(* rectangle is being drawn _endCallback stays registered on its element,   *)
(* and once the rectangle has moved an end event there is handled by        *)
(* _endCallback, which applies the strategy to the points and ends the      *)
(* session.                                                                 *)
C11_MouseDownWhileDrawingIgnored ==
    [][/\ (/\ scissorsOp'.handler = "preMouseDownCallback"
           /\ isDrawing = Some(TRUE)
           /\ <<toolFields, scissorsOp>>' # <<toolFields, scissorsOp>>)
          => /\ scissorsOp'.returned = "undefined"
             /\ ~scissorsOp'.threw
             /\ ~scissorsOp'.defaultPrevented
             /\ ~scissorsOp'.renderTriggered
             /\ UNCHANGED toolFields
       /\ editData' # Undefined
          => /\ isDrawing' = Some(TRUE)
             /\ \E e \in Elements :
                   /\ listeners'[e] = EndEvents \cup DragEvents
                   /\ \A o \in Elements \ {e} : listeners'[o] = {}
       /\ \A e \in Elements :
             (/\ scissorsOp'.handler = "_endCallback"
              /\ scissorsOp'.element = e
              /\ <<toolFields, scissorsOp>>' # <<toolFields, scissorsOp>>
              /\ editData # Undefined
              /\ editData[1].hasMoved)
             => /\ editData' = Undefined
                /\ isDrawing' = Some(FALSE)
                /\ listeners'[e] = {}
                /\ applied' = Some([element |-> e,
                                    segmentationId |-> editData[1].segmentationId,
                                    points |-> editData[1].points])]_vars

(* C11 witness: a mouse-down was ignored while a rectangle that has moved   *)
(* is being drawn.                                                          *)
C11_Witness ==
    /\ scissorsOp.handler = "preMouseDownCallback"
    /\ scissorsOp.returned = "undefined"
    /\ ~scissorsOp.threw
    /\ isDrawing = Some(TRUE)
    /\ editData # Undefined
    /\ editData[1].hasMoved
    /\ editData[1].points[1] # editData[1].points[4]

-----------------------------------------------------------------------------
(* C12: every ZoomTool.preMouseDownCallback returns false, calls neither   *)
(* setCamera nor render, leaves the camera as it is, and stores the world  *)
(* position of the mouse and the unit direction from it to the focal point *)
(* in initialMousePosWorld and dirVec.                                     *)
C12_PreMouseDownOnlySetsDirection ==
    [][zoomOp'.handler = "preMouseDownCallback" /\ zoomStepsLeft' # zoomStepsLeft =>
          /\ zoomOp'.returned = "false"
          /\ zoomOp'.setCameraCalls = 0
          /\ zoomOp'.renderCalls = 0
          /\ UNCHANGED <<zoomCamera, zoomEnv>>
          /\ initialMousePosWorld'[2] = zoomCamera.focalPoint[2]
          /\ dirVec' = <<RInt(RSign(RSub(zoomCamera.focalPoint[1],
                                         initialMousePosWorld'[1]))), RInt(0)>>]_vars

C12_Witness ==
    /\ zoomOp.handler = "preMouseDownCallback"
    /\ zoomOp.returned = "false"
    /\ dirVec[1] # RInt(0)
    /\ zoomCamera.parallelScale \notin InitialParallelScales

-----------------------------------------------------------------------------
(* The parallel scale at which the image, scaled by the image area of the  *)
(* display area, just fits the canvas: half its height, or half the height *)
(* of the canvas that is as wide as the image, whichever is larger.        *)
FitScale ==
    LET area == IF zoomEnv.displayArea = Undefined THEN <<Rat(11, 10), Rat(11, 10)>>
                ELSE zoomEnv.displayArea[1]
        halfHeight == RMul(RMul(RInt(zoomEnv.dimensions[2]), zoomEnv.spacing[2]),
                           RMul(area[2], Rat(1, 2)))
        halfWidth == RMul(RMul(RInt(zoomEnv.dimensions[1]), zoomEnv.spacing[1]),
                          RMul(area[1], Rat(1, 2)))
        byWidth == RMul(halfWidth, Rat(zoomEnv.size[2], zoomEnv.size[1]))
    IN IF RLess(halfHeight, byWidth) THEN byWidth ELSE halfHeight

WithinZoomLimits(scale) ==
    /\ ~RLess(scale, RDiv(FitScale, zoomEnv.configuration.maxZoomScale))
    /\ ~RLess(RDiv(FitScale, zoomEnv.configuration.minZoomScale), scale)

(* C13: on a viewport with image data every callback that zooms in parallel *)
(* projection leaves parallelScale within [fit/maxZoomScale,                *)
(* fit/minZoomScale], and once within these limits no callback of the tool  *)
(* takes it out of them.                                                    *)
C13_ParallelScaleWithinLimits ==
    [][zoomEnv.hasImageData =>
          /\ zoomOp'.parallelZooms > 0 /\ zoomStepsLeft' # zoomStepsLeft
                 => WithinZoomLimits(zoomCamera'.parallelScale)
          /\ WithinZoomLimits(zoomCamera.parallelScale)
                 => WithinZoomLimits(zoomCamera'.parallelScale)]_vars

(* A wheel step that would have left the limits on either side *)
C13_Witness ==
    /\ zoomEnv.hasImageData
    /\ zoomOp.handler = "mouseWheelCallback"
    /\ zoomOp.parallelZooms = 1
    /\ zoomCamera.parallelScale = RDiv(FitScale, zoomEnv.configuration.minZoomScale)
    /\ zoomStepsLeft = 0

-----------------------------------------------------------------------------
VoxelCoordinates ==
    (0..(Dimensions[1] - 1)) \X (0..(Dimensions[2] - 1)) \X (0..(Dimensions[3] - 1))

(* The voxels within the bounding box of the rectangle, in index space *)
InBoundingBox(points, v) ==
    LET box == getBoundingBoxAroundShape(
                   [n \in 1..Len(points) |-> worldToIndex(points[n])], Dimensions)
    IN \A a \in 1..3 : box[a][1] <= v[a] /\ v[a] <= box[a][2]

(* The bounding box has no axis on which it is one voxel thick *)
Oblique(points) ==
    \E lo, hi \in VoxelCoordinates :
        /\ InBoundingBox(points, lo) /\ InBoundingBox(points, hi)
        /\ \A a \in 1..3 : lo[a] # hi[a]

(* The step zeroes the unlocked voxels whose place satisfies Erased and *)
(* keeps every other voxel                                              *)
ErasesWhere(Erased(_)) ==
    \A v \in VoxelCoordinates :
        LET n == VoxelIndex(v[1], v[2], v[3])
        IN scalarData'[n] = IF Erased(v) /\ scalarData[n] \notin eraseOp'.segmentsLocked
                            THEN 0 ELSE scalarData[n]

EraseStep(name) == eraseOp'.name = name /\ eraseCallsLeft' # eraseCallsLeft

(* C14 as stated: every eraseInsideRectangle zeroes the unlocked voxels of *)
(* the bounding box of the rectangle, keeps the locked voxels and the      *)
(* voxels outside it, and triggers the data-modified event once.           *)
C14_EraseInsideErasesBox ==
    [][EraseStep("eraseInsideRectangle") =>
          LET inside(v) == InBoundingBox(eraseOp'.points, v)
          IN /\ ErasesWhere(inside)
             /\ eraseOp'.dataModifiedEvents = 1]_vars

(* C14: eraseInsideRectangle of a rectangle whose bounding box is more     *)
(* than one voxel thick on every axis throws, changes no voxel and         *)
(* triggers no event; of any other rectangle it zeroes the unlocked voxels *)
(* of the bounding box, keeps the locked voxels and the voxels outside it, *)
(* and triggers the data-modified event once.                              *)
C14_EraseInsideUnlessOblique ==
    [][EraseStep("eraseInsideRectangle") =>
          LET inside(v) == InBoundingBox(eraseOp'.points, v)
          IN IF Oblique(eraseOp'.points)
             THEN /\ eraseOp'.threw /\ eraseOp'.error = ObliqueNotSupported
                  /\ UNCHANGED scalarData
                  /\ eraseOp'.dataModifiedEvents = 0
             ELSE /\ ~eraseOp'.threw
                  /\ ErasesWhere(inside)
                  /\ eraseOp'.dataModifiedEvents = 1]_vars

(* An erase that zeroed a voxel, kept a locked voxel of the box and kept *)
(* an unlocked voxel outside the box                                     *)
C14_Witness ==
    /\ eraseOp.name = "eraseInsideRectangle"
    /\ ~eraseOp.threw
    /\ eraseOp.dataModifiedEvents = 1
    /\ \E v, w, o \in VoxelCoordinates :
          /\ InBoundingBox(eraseOp.points, v)
          /\ scalarData[VoxelIndex(v[1], v[2], v[3])] = 0
          /\ InBoundingBox(eraseOp.points, w)
          /\ scalarData[VoxelIndex(w[1], w[2], w[3])] \in eraseOp.segmentsLocked
          /\ ~InBoundingBox(eraseOp.points, o)
          /\ scalarData[VoxelIndex(o[1], o[2], o[3])] \in
                 SegmentIndices \ eraseOp.segmentsLocked

(* C15: every eraseOutsideRectangle that returns zeroes the unlocked voxels *)
(* outside the bounding box of the rectangle and keeps the voxels inside it *)
(* and the locked voxels.                                                   *)
C15_EraseOutsideErasesOutside ==
    [][EraseStep("eraseOutsideRectangle") /\ ~eraseOp'.threw =>
          LET outside(v) == ~InBoundingBox(eraseOp'.points, v)
          IN ErasesWhere(outside)]_vars

-----------------------------------------------------------------------------
EventsOf(c) == SelectSeq(progressEvents, LAMBDA e : e.call = c)

CalledNow(c, kind) ==
    conversions[c].pc = "notCalled" /\ conversions'[c].kind = kind

-----------------------------------------------------------------------------
(* C17: the progress events of each conversion are in order. The first is  *)
(* progress 0, emitted before the worker task is started; the events of    *)
(* the worker's callbacks follow it while the task runs, before the final  *)
(* event; the final event is progress 100, emitted after the task resolved *)
(* and before any new scalar data is written; a conversion whose worker    *)
(* task rejected emits no final event and writes no scalar data.           *)
C17_ProgressEventsOrdered ==
    \A c \in ConversionCalls :
        LET events == EventsOf(c)
            last == Len(events)
        IN /\ workerTasks[c].state = "none" <=> last = 0
           /\ \A n \in 1..last :
                 /\ n = 1 <=> events[n].from = "start"
                 /\ events[n].from = "start" =>
                        events[n].progress = 0 /\ events[n].task = "none"
                 /\ events[n].from = "callback" => events[n].task = "running"
                 /\ events[n].from = "end" =>
                        /\ n = last
                        /\ events[n].progress = 100
                        /\ events[n].task = "resolved"
                        /\ ~events[n].written
           /\ conversions[c].pc = "resolved" =>
                 /\ events[last].from = "end"
                 /\ conversions[c].derived # <<>> => Written(ConvertState, c)
           /\ workerTasks[c].state = "rejected" =>
                 /\ \A n \in 1..last : events[n].from # "end"
                 /\ ~Written(ConvertState, c)

(* One conversion ran to its end with a progress callback, the worker task *)
(* of the other rejected after a callback and the conversion resumed       *)
C17_Witness ==
    \E c, d \in ConversionCalls :
        /\ conversions[c].pc = "resolved" /\ Len(EventsOf(c)) = 3
        /\ workerTasks[d].state = "rejected" /\ Len(EventsOf(d)) = 2
        /\ conversions[d].pc = "rejected"
        /\ conversions[c].kind # conversions[d].kind

-----------------------------------------------------------------------------
VolumeConversions ==
    {c \in ConversionCalls : conversions[c].kind = "volume" /\ conversions[c].derived # <<>>}

(* C18: every convertContourToVolumeLabelmap call that passes its checks   *)
(* creates a derived labelmap volume under an id no other volume or image  *)
(* has; when it resumes with the result of its worker task it writes that  *)
(* result into its own volume and changes no other entry of the cache, so  *)
(* that, in whatever order the tasks resolve, the volume of a finished     *)
(* conversion holds that conversion's result and the volume of one that    *)
(* still waits is blank.                                                   *)
C18_EachConversionOwnsItsVolume ==
    [][\A c \in ConversionCalls :
          /\ CalledNow(c, "volume") /\ conversions'[c].derived # <<>> =>
                LET id == conversions'[c].derived[1]
                IN /\ labelmapCache[id] = Undefined
                   /\ \A other \in DerivedIds \ {id} :
                          labelmapCache'[other] = labelmapCache[other]
          /\ c \in VolumeConversions /\ conversions[c].pc # conversions'[c].pc =>
                LET id == conversions[c].derived[1]
                IN /\ conversions'[c].derived = <<id>>
                   /\ \A other \in DerivedIds \ {id} :
                          labelmapCache'[other] = labelmapCache[other]
                   /\ conversions'[c].pc = "resolved" =>
                          /\ labelmapCache'[id][1].scalarData = workerResult(c, "volume")
                          /\ conversions'[c].returned = <<id>>
          /\ (c \in VolumeConversions)' =>
                LET id == conversions'[c].derived[1]
                IN /\ \A d \in VolumeConversions' \ {c} : conversions'[d].derived[1] # id
                   /\ labelmapCache'[id][1].scalarData =
                          IF conversions'[c].pc = "resolved"
                          THEN workerResult(c, "volume") ELSE Blank]_vars

(* Two overlapping conversions that finished in the reverse order of their *)
(* calls                                                                   *)
C18_Witness ==
    /\ VolumeConversions = ConversionCalls
    /\ \A c \in ConversionCalls : conversions[c].pc = "resolved"
    /\ Len(progressEvents) = 4
    /\ progressEvents[1].call = progressEvents[4].call
    /\ progressEvents[2].call = progressEvents[3].call
    /\ progressEvents[1].call # progressEvents[2].call

-----------------------------------------------------------------------------
RenderColorStep ==
    renderOp'.name = "renderColorImage" /\ renderStepsLeft' # renderStepsLeft

(* The cached LUT of the image shown is one for the values of the viewport *)
CachedLutMatches ==
    LET cachedLut == images[cpuEnabledElement.image].cachedLut
        viewport == cpuEnabledElement.viewport
    IN /\ cachedLut # Undefined
       /\ cachedLut[1].windowCenter = viewport.windowCenter
       /\ cachedLut[1].windowWidth = viewport.windowWidth
       /\ cachedLut[1].invert = viewport.invert

(* C19: every getLut call generates no LUT exactly when the image has a   *)
(* cached LUT for the windowCenter, windowWidth and invert of the         *)
(* viewport, and then keeps the cache; it returns the lutArray of the     *)
(* cache, and after it the cache is for the values of the viewport and    *)
(* holds the LUT generated from them.                                     *)
C19_LutCacheFollowsViewport ==
    [][RenderColorStep /\ renderOp'.getLutCalls > 0 =>
          LET viewport == cpuEnabledElement.viewport
              cached == images'[cpuEnabledElement.image].cachedLut
          IN /\ renderOp'.getLutCalls = 1
             /\ renderOp'.lutGenerations = 0 <=> CachedLutMatches
             /\ CachedLutMatches => images' = images
             /\ CachedLutMatches'
             /\ renderOp'.lut = cached[1].lutArray
             /\ cached[1].lutArray =
                    generateColorLUT(viewport.windowWidth, viewport.windowCenter,
                                     viewport.invert)]_vars

(* A getLut call that found its LUT in the cache of its image while the *)
(* other image has a LUT for another window cached                      *)
C19_Witness ==
    /\ renderOp.name = "renderColorImage"
    /\ renderOp.getLutCalls = 1
    /\ renderOp.lutGenerations = 0
    /\ renderOp.invalidated
    /\ renderOp.lut # generateColorLUT(256, 128, FALSE)
    /\ \E id \in DOMAIN RenderImages \ {cpuEnabledElement.image} :
          /\ images[id].cachedLut # Undefined
          /\ images[id].cachedLut[1].lutArray # renderOp.lut

-----------------------------------------------------------------------------
(* The window is the identity and the image has a canvas of its own *)
FastPath ==
    /\ cpuEnabledElement.viewport.windowWidth \in {256, 255}
    /\ cpuEnabledElement.viewport.windowCenter \in {128, 127}
    /\ ~cpuEnabledElement.viewport.invert
    /\ RenderImages[cpuEnabledElement.image].hasCanvas

(* The image shown was last rendered on the element with the viewport as it is *)
RenderedAsIs ==
    /\ cpuEnabledElement.renderingTools.lastRenderedImageId = cpuEnabledElement.image
    /\ cpuEnabledElement.renderingTools.lastRenderedViewport =
           Some(cpuEnabledElement.viewport)

(* The stored pixel data of the image shown, mapped by the LUT of the viewport *)
RenderedPixels ==
    [kind |-> "pixels",
     data |-> applyLut(generateColorLUT(cpuEnabledElement.viewport.windowWidth,
                                        cpuEnabledElement.viewport.windowCenter,
                                        cpuEnabledElement.viewport.invert),
                       images[cpuEnabledElement.image].pixelData)]

(* C20: a renderColorImage call that does not throw returns the render     *)
(* canvas as it is only when invalidated is false and the image was last   *)
(* rendered with the viewport as it is; with invalidated true it draws the *)
(* canvas of the image when the window is the identity, and otherwise the  *)
(* render canvas after the stored pixel data, mapped by the LUT, has been  *)
(* put into it.                                                            *)
C20_InvalidatedRendersAgain ==
    [][RenderColorStep /\ ~renderOp'.threw =>
          LET renderCanvas == cpuEnabledElement'.renderingTools.renderCanvas[1]
          IN /\ renderOp'.path = "cached" => ~renderOp'.invalidated /\ RenderedAsIs
             /\ renderOp'.invalidated =>
                   IF FastPath
                   THEN /\ renderOp'.path = "fastPath"
                        /\ cpuEnabledElement'.displayed.kind = "image"
                   ELSE /\ renderOp'.path = "rendered"
                        /\ renderOp'.putImageDataCalls = 1
                        /\ canvases'[renderCanvas].content = RenderedPixels
                        /\ cpuEnabledElement'.displayed = RenderedPixels]_vars


-----------------------------------------------------------------------------
(* The step index the play context of timer t reads: the dimension group *)
(* of a 4D clip, the image or slice index of the viewport otherwise      *)
StepIndexOf(t) ==
    IF t.context.kind = "dynamic"
    THEN dimensionGroupNumber[t.context.volumeId] - 1
    ELSE stepIndex[t.element]

StepRange == 0..(numScrollSteps - 1)

(* The step the claim gives for a tick at index c of a clip with data *)
ClaimedStep(data, c) ==
    LET direction == IF data.reverse THEN -1 ELSE 1
    IN IF c + direction \in StepRange THEN c + direction
       ELSE IF data.bounce
       THEN Max(0, Min(numScrollSteps - 1, c - direction))
       ELSE IF data.loop
       THEN (IF data.reverse THEN numScrollSteps - 1 ELSE 0)
       ELSE c

(* The scroll of the tick was called, did not throw and did not wait for *)
(* the viewport to be rendered                                           *)
ScrollApplied ==
    /\ lastOp'.delta # Undefined
    /\ \A n \in DOMAIN lastOp'.events : lastOp'.events[n].type # "CLIP_STOPPED"
    /\ notRenderedLeft' = notRenderedLeft

(* C21: a tick of a clip whose step index is in [0, numScrollSteps - 1]    *)
(* asks its context to scroll to an index in that range and leaves the     *)
(* index there or where it was: one step in the direction of the clip      *)
(* while that stays in range; else with bounce the direction flips and the *)
(* index is one step in the new direction, clamped into the range, also    *)
(* when loop is false; else with loop the first step (the last one when    *)
(* reversed); else the clip is stopped at its index.                       *)
C21_StepIndexStaysInRange ==
    [][lastOp'.op = "tick" =>
          \A t \in TimersOf(lastOp'.element) :
              LET data == Data(t.element)
                  data2 == toolState'[t.viewportId][1]
                  c == StepIndexOf(t)
                  c2 == StepIndexOf(t)'
                  out == c + (IF data.reverse THEN -1 ELSE 1) \notin StepRange
              IN    /\ c \in StepRange
                    /\ ClaimedStep(data, c) \in StepRange
                    /\ lastOp'.delta \in {Undefined, Some(ClaimedStep(data, c) - c)}
                    /\ c2 \in {c, ClaimedStep(data, c)}
                    /\ ScrollApplied => c2 = ClaimedStep(data, c)
                    /\ data2.reverse = (IF out /\ data.bounce THEN ~data.reverse
                                        ELSE data.reverse)
                    /\ (out /\ ~data.bounce /\ ~data.loop)
                          => /\ c2 = c
                             /\ TimersOf(t.element)' = {}
                    /\ (out /\ data.bounce /\ ~data.loop /\ numScrollSteps > 1)
                          => /\ lastOp'.delta # Undefined
                             /\ ScrollApplied => TimersOf(t.element)' # {}]_vars

(* A bouncing clip with loop false on a volume viewport of three slices *)
(* that ran forward to the last slice, turned there and stepped back    *)
C21_Witness ==
    /\ lastOp.op = "tick"
    /\ lastOp.outOfRange
    /\ lastOp.delta = Some(-1)
    /\ numScrollSteps = 3
    /\ \E t \in TimersOf(lastOp.element) :
          /\ t.context.kind = "volume"
          /\ Data(t.element).bounce
          /\ ~Data(t.element).loop
          /\ Data(t.element).reverse
          /\ StepIndexOf(t) = 1

====
